---- MODULE Spec2Model ----
(***************************************************************************)
(* Model of the efficiency-cockpit context-capture pipeline:               *)
(*   watcher.rs   FileWatcher (queue consumer, ignore filter),             *)
(*                deduplicate_events                                       *)
(*   db.rs        Database (snapshots table, retention delete)             *)
(*   snapshot.rs  SnapshotService (capture, cleanup)                       *)
(*   main.rs      cmd_watch (the watch loop), cmd_import                   *)
(*   gatekeeper.rs  Gatekeeper (analyze and its checks, daily_summary)      *)
(*   config.rs    Config (load, load_default, validate)                    *)
(*                                                                         *)
(* The specifications share the variables:                                 *)
(*   SpecDedup    deduplicate_events applied to every bounded batch        *)
(*   SpecStore    the snapshots table under inserts, imports and cleanups  *)
(*   Spec         the watch loop with the notifier thread, the Ctrl-C      *)
(*                handler and a store whose calls may fail                 *)
(*   SpecPoll     poll_events and wait_for_events as whole calls           *)
(*   SpecCapture  one call of SnapshotService::capture                     *)
(*   SpecContext  one call of context_from_path                            *)
(*   SpecAnalyze  one call of Gatekeeper::analyze                          *)
(*   SpecRepeat   analyze called repeatedly on one Gatekeeper              *)
(*   SpecSummary  one call of Gatekeeper::daily_summary                    *)
(*   SpecMain     main from the configuration to the command               *)
(*   SpecLive     the watch loop under weak fairness of the loop thread    *)
(*   SpecRetain   the cycle's cleanup followed by analyze                  *)
(***************************************************************************)
EXTENDS Integers, Sequences, FiniteSets, TLC

VARIABLES
    \* ---- deduplicate_events (watcher.rs) ----
    dd_events,      \* the argument `events: Vec<WatchEvent>`
    dd_result,      \* the returned Vec<WatchEvent>
    dd_pc,          \* "call" before the call, "ret" after it
    \* ---- Database (db.rs) ----
    snapshots,      \* rows of the snapshots table
    next_id,        \* ids handed out so far by Uuid::new_v4
    db_op,          \* record of the last Database call
    file_events,    \* rows of the file_events table
    \* ---- cmd_watch (main.rs) and FileWatcher (watcher.rs) ----
    running,        \* the AtomicBool the Ctrl-C handler clears
    queue,          \* the mpsc channel between notifier thread and loop
    pc,             \* position of the loop
    events,         \* batch being built / not yet captured part of it
    sent,           \* number of items the notifier has sent
    cycle,          \* bookkeeping of the polling cycle in progress
    \* ---- SnapshotService, context_from_path, Gatekeeper ----
    call            \* the call under examination: arguments, then results

vars == <<dd_events, dd_result, dd_pc, snapshots, next_id, db_op,
          file_events, running, queue, pc, events, sent, cycle, call>>

dedupVars == <<dd_events, dd_result, dd_pc>>
storeVars == <<snapshots, next_id, db_op, file_events>>
watchVars == <<running, queue, pc, events, sent, cycle>>

(***************************************************************************)
(* Generic helpers                                                         *)
(***************************************************************************)
Range(s) == {s[i] : i \in 1..Len(s)}

SeqsUpTo(S, n) == UNION {[1..k -> S] : k \in 0..n}

Min(a, b) == IF a <= b THEN a ELSE b

Max(a, b) == IF a >= b THEN a ELSE b

\* lexicographic order on sequences of character codes (SQLite BINARY
\* collation of TEXT, Rust `str` ordering)
TextLess(a, b) ==
    LET differ == {i \in 1..Min(Len(a), Len(b)) : a[i] # b[i]}
    IN IF differ = {} THEN Len(a) < Len(b)
       ELSE LET first == CHOOSE i \in differ : \A j \in differ : i <= j
            IN a[first] < b[first]

(***************************************************************************)
(* Paths and watch events                                                  *)
(***************************************************************************)
\* A path is the sequence of its characters.
PathA == <<"/", "a">>
PathB == <<"/", "b">>
PathGit == <<"/", ".", "g">>

Paths == {PathA, PathB, PathGit}

\* FileEventType (db.rs); Renamed exists in the type
FileEventType == {"Created", "Modified", "Deleted", "Renamed"}

\* struct WatchEvent { path, event_type }
WatchEvent == [path : Paths, event_type : FileEventType]

(***************************************************************************)
(* deduplicate_events (watcher.rs 135-145)                                 *)
(***************************************************************************)
EmptyMap == [k \in {} |-> FALSE]

\* the key under which deduplicate_events files an event: event.path.clone()
DedupKeyByType(event) == event.event_type
DedupKey(event) == event.path

\* HashMap::insert: the new value replaces the one stored under the key
HashMapInsertKeepFirst(m, k, v) ==
    [x \in DOMAIN m \cup {k} |-> IF x \in DOMAIN m THEN m[x] ELSE v]
HashMapInsert(m, k, v) ==
    [x \in DOMAIN m \cup {k} |-> IF x = k THEN v ELSE m[x]]

\* for event in events { latest.insert(event.path.clone(), event); }
RECURSIVE Latest(_, _)
Latest(m, evs) ==
    IF evs = <<>> THEN m
    ELSE Latest(HashMapInsert(m, DedupKey(Head(evs)), Head(evs)), Tail(evs))

\* latest.into_values().collect(): the values in the map's iteration order,
\* which the HashMap does not fix; every order is a possible result
IntoValues(m) ==
    LET n == Cardinality(DOMAIN m)
        orders == {o \in [1..n -> DOMAIN m] :
                      \A i, j \in 1..n : i # j => o[i] # o[j]}
    IN {[i \in 1..n |-> m[o[i]]] : o \in orders}

\* the set of vectors deduplicate_events(events) may return
deduplicate_events(evs) == IntoValues(Latest(EmptyMap, evs))

(***************************************************************************)
(* Timestamps: DateTime<Utc> and its stored text (db.rs 139, 177, 280)     *)
(***************************************************************************)
\* A DateTime<Utc> is [secs, nanos]: whole seconds since 2024-01-01T00:00:00Z
\* (within that month) and the nanoseconds of the second.
DateTime(s, n) == [secs |-> s, nanos |-> n]

\* instants around a change of second, with 0, 3 and 6 fraction digits
Times == {DateTime(9, 0), DateTime(9, 500000000),
          DateTime(9, 500001000), DateTime(10, 0)}

\* chronological order of instants
TimeLeq(a, b) == a.secs < b.secs \/ (a.secs = b.secs /\ a.nanos <= b.nanos)

Digits(n, width) ==
    [i \in 1..width |-> 48 + ((n \div (10 ^ (width - i))) % 10)]

\* variant: the text is written to the second, without a fraction
to_rfc3339Seconds(t) ==
    Digits(2024, 4) \o <<45>> \o Digits(1, 2) \o <<45>>
    \o Digits(1 + (t.secs \div 86400), 2) \o <<84>>
    \o Digits((t.secs % 86400) \div 3600, 2) \o <<58>>
    \o Digits((t.secs % 3600) \div 60, 2) \o <<58>>
    \o Digits(t.secs % 60, 2) \o <<43>> \o Digits(0, 2) \o <<58>>
    \o Digits(0, 2)

\* DateTime::to_rfc3339: YYYY-MM-DDTHH:MM:SS, the fraction in 0, 3, 6 or 9
\* digits (SecondsFormat::AutoSi), then +00:00; characters as ASCII codes
to_rfc3339(t) ==
    LET day  == 1 + (t.secs \div 86400)
        hh   == (t.secs % 86400) \div 3600
        mm   == (t.secs % 3600) \div 60
        ss   == t.secs % 60
        frac == IF t.nanos = 0 THEN <<>>
                ELSE IF t.nanos % 1000000 = 0
                     THEN <<46>> \o Digits(t.nanos \div 1000000, 3)
                ELSE IF t.nanos % 1000 = 0
                     THEN <<46>> \o Digits(t.nanos \div 1000, 6)
                ELSE <<46>> \o Digits(t.nanos, 9)
    IN Digits(2024, 4) \o <<45>> \o Digits(1, 2) \o <<45>> \o Digits(day, 2)
       \o <<84>> \o Digits(hh, 2) \o <<58>> \o Digits(mm, 2) \o <<58>>
       \o Digits(ss, 2) \o frac \o <<43>> \o Digits(0, 2) \o <<58>>
       \o Digits(0, 2)

(***************************************************************************)
(* The snapshots table (db.rs 104-148, 277-286)                            *)
(***************************************************************************)
\* Option<T>: None is the empty sequence, Some(x) the one-element sequence
None == <<>>

Some(x) == <<x>>

\* new_snapshot(): generated id, current timestamp, every other field None
new_snapshot(id, now) ==
    [id |-> id, timestamp |-> now, active_file |-> None,
     active_directory |-> None, git_branch |-> None, notes |-> None]

\* the row insert_snapshot writes: the timestamp column holds the text
Row(snapshot) == [snapshot EXCEPT !.timestamp = to_rfc3339(snapshot.timestamp)]

StoredIds(rows) == {r.id : r \in rows}

\* variant: the id column is not a key
InsertSucceedsNoKey(rows, snapshot, io) == io

\* INSERT INTO snapshots ...: id is the PRIMARY KEY, so the statement fails
\* when the id is stored already; it may also fail for a reason of the
\* storage engine (io = FALSE).  A failed statement changes nothing.
InsertSucceeds(rows, snapshot, io) == io /\ snapshot.id \notin StoredIds(rows)

insert_snapshot(rows, snapshot, io) ==
    IF InsertSucceeds(rows, snapshot, io)
    THEN rows \cup {Row(snapshot)}
    ELSE rows

\* the rows with the greatest timestamp text
RECURSIVE LatestRows(_)
LatestRows(rows) ==
    IF rows = {} THEN {}
    ELSE LET x == CHOOSE x \in rows : TRUE
             M == LatestRows(rows \ {x})
         IN IF M = {} THEN {x}
            ELSE LET m == CHOOSE m \in M : TRUE
                 IN IF TextLess(m.timestamp, x.timestamp) THEN {x}
                    ELSE IF TextLess(x.timestamp, m.timestamp) THEN M
                    ELSE M \cup {x}

OrderAscLimit(rows, limit) ==
    {StoredIds(K) : K \in {K \in SUBSET rows :
        /\ Cardinality(K) = Min(limit, Cardinality(rows))
        /\ \A k \in K, d \in rows \ K : ~TextLess(d.timestamp, k.timestamp)}}

\* SELECT id FROM snapshots ORDER BY timestamp DESC LIMIT ?1: the ids of the
\* first `limit` rows in descending order of the timestamp text. A row is
\* among them for sure when it and the rows at least as late are no more
\* than the limit; the places left are filled from the rows of the next
\* timestamp text, in an order SQL leaves open, so every choice is possible
OrderDescLimit(rows, limit) ==
    LET count == Min(limit, Cardinality(rows))
        NotEarlier(r) == {o \in rows : ~TextLess(o.timestamp, r.timestamp)}
        Later(r) == {o \in rows : TextLess(r.timestamp, o.timestamp)}
        sure == {r \in rows : Cardinality(NotEarlier(r)) <= count}
        tied == {r \in rows \ sure : Cardinality(Later(r)) < count}
    IN {StoredIds(sure \cup T) :
           T \in {T \in SUBSET tied :
                     Cardinality(T) = count - Cardinality(sure)}}

\* DELETE FROM snapshots WHERE id NOT IN (ids): the rows that remain
DeleteIn(rows, ids) == {r \in rows : r.id \notin ids}
DeleteNotIn(rows, ids) == {r \in rows : r.id \in ids}

\* cleanup_old_snapshots(max_snapshots) when the statement succeeds: the
\* possible results [rows, deleted]; deleted is the statement's row count
cleanup_old_snapshots(rows, max_snapshots) ==
    {[rows    |-> DeleteNotIn(rows, ids),
      deleted |-> Cardinality(rows) - Cardinality(DeleteNotIn(rows, ids))] :
        ids \in OrderDescLimit(rows, max_snapshots)}

\* DateTime::parse_from_rfc3339(text).with_timezone(&Utc) on a text written
\* by to_rfc3339 (db.rs 159-161, 183-185): the fields at their positions, the
\* fraction being the digits between '.' and '+'
NumberOf(text, from, to) ==
    LET RECURSIVE Val(_, _)
        Val(i, acc) == IF i > to THEN acc
                       ELSE Val(i + 1, 10 * acc + (text[i] - 48))
    IN Val(from, 0)

parse_from_rfc3339(text) ==
    LET day   == NumberOf(text, 9, 10)
        hh    == NumberOf(text, 12, 13)
        mm    == NumberOf(text, 15, 16)
        ss    == NumberOf(text, 18, 19)
        nfrac == IF text[20] = 46 THEN Len(text) - 26 ELSE 0
        frac  == IF nfrac = 0 THEN 0
                 ELSE NumberOf(text, 21, 20 + nfrac) * (10 ^ (9 - nfrac))
    IN DateTime((day - 1) * 86400 + hh * 3600 + mm * 60 + ss, frac)

(***************************************************************************)
(* SpecDedup: deduplicate_events on every batch of at most MaxBatch events *)
(***************************************************************************)
MaxBatch == 3

NoOp == [op |-> "none", ok |-> TRUE, max |-> 0, id |-> 0, before |-> {},
         deleted |-> 0,
         prev |-> [op |-> "none", ok |-> TRUE, max |-> 0, id |-> 0]]

\* bookkeeping of one polling cycle (observation only, the loop never reads it)
NoCycle ==
    [started    |-> FALSE,  \* a polling cycle has begun
     returned   |-> FALSE,  \* wait_for_events has returned
     timeout    |-> FALSE,  \* recv_timeout ended without an item
     recv_queue |-> <<>>,   \* the queue when recv_timeout obtained its item
     taken      |-> <<>>,   \* the items this call took from the queue
     batch      |-> <<>>,   \* the batch wait_for_events returned
     captured   |-> <<>>,   \* the paths capture was called for
     cleanups   |-> 0,      \* cleanup calls made
     cleanup_ok |-> FALSE,  \* the cleanup call returned Ok
     pending    |-> 0,      \* events not yet captured when cleanup was called
     stop_at    |-> 0 - 1,  \* captures made when the flag was cleared, or -1
     err        |-> FALSE,  \* a store call failed in this cycle
     prev_err   |-> FALSE]  \* a store call failed in an earlier cycle

DedupIdle == dd_events = <<>> /\ dd_result = <<>> /\ dd_pc = "idle"

\* no call of SnapshotService, context_from_path or Gatekeeper is examined
NoCall == [fn |-> "none", pc |-> "idle"]

CallIdle == call = NoCall

StoreEmpty ==
    snapshots = {} /\ next_id = 0 /\ db_op = NoOp /\ file_events = {}

WatchIdle ==
    /\ running = FALSE
    /\ queue = <<>>
    /\ pc = "idle"
    /\ events = <<>>
    /\ sent = 0
    /\ cycle = NoCycle

InitDedup ==
    /\ dd_events \in SeqsUpTo(WatchEvent, MaxBatch)
    /\ dd_result = <<>>
    /\ dd_pc = "call"
    /\ StoreEmpty
    /\ WatchIdle
    /\ CallIdle

\* let deduped = deduplicate_events(events);
Deduplicate ==
    /\ dd_pc = "call"
    /\ \E r \in deduplicate_events(dd_events) : dd_result' = r
    /\ dd_pc' = "ret"
    /\ UNCHANGED <<dd_events, storeVars, watchVars, call>>

NextDedup == Deduplicate

SpecDedup == InitDedup /\ [][NextDedup]_vars

(***************************************************************************)
(* SpecStore: the snapshots table under insert_snapshot and                *)
(* cleanup_old_snapshots, with any id, timestamp and limit                 *)
(***************************************************************************)
MaxIds == 3

MaxKeep == 2

Ids == 1..MaxIds

\* what the next call's record keeps of the call before it
Prev(op) == [op |-> op.op, ok |-> op.ok, max |-> op.max, id |-> op.id]

InitStore == DedupIdle /\ WatchIdle /\ StoreEmpty /\ CallIdle

\* db.insert_snapshot(&snapshot) with a snapshot of any id and timestamp
\* (a capture, or a snapshot read from an import file)
StoreInsert ==
    /\ \E id \in Ids, t \in Times, io \in BOOLEAN :
        LET snapshot == new_snapshot(id, t) IN
        /\ snapshots' = insert_snapshot(snapshots, snapshot, io)
        /\ db_op' = [op |-> "insert", ok |-> InsertSucceeds(snapshots, snapshot, io),
                     max |-> 0, id |-> id, before |-> snapshots, deleted |-> 0,
                     prev |-> Prev(db_op)]
    /\ UNCHANGED <<next_id, dedupVars, watchVars, call, file_events>>

\* db.cleanup_old_snapshots(max) returning Ok(deleted)
StoreCleanupOk ==
    /\ \E max \in 0..MaxKeep : \E r \in cleanup_old_snapshots(snapshots, max) :
        /\ snapshots' = r.rows
        /\ db_op' = [op |-> "cleanup", ok |-> TRUE, max |-> max, id |-> 0,
                     before |-> snapshots, deleted |-> r.deleted,
                     prev |-> Prev(db_op)]
    /\ UNCHANGED <<next_id, dedupVars, watchVars, call, file_events>>

\* db.cleanup_old_snapshots(max) returning Err: the statement did nothing
StoreCleanupErr ==
    /\ \E max \in 0..MaxKeep :
        db_op' = [op |-> "cleanup", ok |-> FALSE, max |-> max, id |-> 0,
                  before |-> snapshots, deleted |-> 0, prev |-> Prev(db_op)]
    /\ UNCHANGED <<snapshots, next_id, file_events, dedupVars, watchVars,
                   call>>

\* the snapshots of an import file: a file of one snapshot, of two, and of
\* two with the same id
ImportFiles ==
    {<<new_snapshot(1, DateTime(9, 0))>>,
     <<new_snapshot(1, DateTime(9, 0)), new_snapshot(2, DateTime(9, 500000000))>>,
     <<new_snapshot(2, DateTime(9, 0)), new_snapshot(2, DateTime(10, 0))>>}

\* the for loop of cmd_import: a snapshot whose id is in existing_ids is
\* skipped, a failed insert is logged and counted as skipped; ios[n] tells
\* whether the storage engine lets the insert of the n-th snapshot succeed
RECURSIVE ImportLoop(_, _, _, _, _)
ImportLoop(rows, file, n, existing_ids, ios) ==
    IF n > Len(file) THEN [rows |-> rows, imported |-> 0, skipped |-> 0]
    ELSE IF file[n].id \in existing_ids
    THEN LET rest == ImportLoop(rows, file, n + 1, existing_ids, ios)
         IN [rest EXCEPT !.skipped = @ + 1]
    ELSE LET ok   == InsertSucceeds(rows, file[n], ios[n])
             rest == ImportLoop(insert_snapshot(rows, file[n], ios[n]), file,
                                n + 1, existing_ids, ios)
         IN IF ok THEN [rest EXCEPT !.imported = @ + 1]
            ELSE [rest EXCEPT !.skipped = @ + 1]

\* cmd_import(db, input, skip_duplicates) of a file that parses; with
\* skip_duplicates the stored ids are read first (the store holds fewer
\* than the 10000 rows the query is limited to)
CmdImport ==
    /\ \E file \in ImportFiles, skip_duplicates \in BOOLEAN,
          ios \in {<<TRUE, TRUE>>, <<FALSE, TRUE>>} :
        LET existing_ids == IF skip_duplicates THEN StoredIds(snapshots)
                            ELSE {}
            r == ImportLoop(snapshots, file, 1, existing_ids, ios)
        IN /\ snapshots' = r.rows
           /\ db_op' = [op |-> "import", ok |-> TRUE, max |-> 0, id |-> 0,
                        before |-> snapshots, deleted |-> 0,
                        prev |-> Prev(db_op), len |-> Len(file),
                        imported |-> r.imported, skipped |-> r.skipped]
    /\ UNCHANGED <<next_id, dedupVars, watchVars, call, file_events>>

\* cmd_import with skip_duplicates when reading the stored ids fails: the
\* error leaves the function before any insert
CmdImportErr ==
    /\ db_op' = [op |-> "import", ok |-> FALSE, max |-> 0, id |-> 0,
                 before |-> snapshots, deleted |-> 0, prev |-> Prev(db_op),
                 len |-> 0, imported |-> 0, skipped |-> 0]
    /\ UNCHANGED <<snapshots, next_id, file_events, dedupVars, watchVars,
                   call>>

NextStore ==
    \/ StoreInsert
    \/ StoreCleanupOk
    \/ StoreCleanupErr
    \/ CmdImport
    \/ CmdImportErr

SpecStore == InitStore /\ [][NextStore]_vars

(***************************************************************************)
(* FileWatcher (watcher.rs 28-131)                                         *)
(***************************************************************************)
\* Result<notify::Event, notify::Error> as the notifier thread sends it
OkEvent(kind, paths) == [ok |-> TRUE, kind |-> kind, paths |-> paths]

ErrItem == [ok |-> FALSE, kind |-> "Error", paths |-> <<>>]

\* the items the notifier thread may send
Notifications ==
    {ErrItem,
     OkEvent("Create", <<PathA>>),
     OkEvent("Modify", <<PathA>>),
     OkEvent("Access", <<PathB>>),
     OkEvent("Remove", <<PathGit, PathB>>)}

\* config.ignore_patterns: a pattern is a sequence of atoms, each matching
\* one character: "\\." the dot, "." any character, another character
\* itself; "[" opens a class that is never closed, which does not compile
ignore_patterns == << <<"\\.", "g">>, <<"[", "a">> >>

\* Regex::new(p).ok()
RegexNew(p) == IF "[" \in Range(p) THEN None ELSE Some(p)

\* filter_map(|p| Regex::new(p).ok()).collect()
compiled_patterns ==
    SelectSeq(ignore_patterns, LAMBDA p : RegexNew(p) # None)

AtomMatches(atom, c) ==
    IF atom = "." THEN TRUE
    ELSE IF atom = "\\." THEN c = "."
    ELSE atom = c

\* variant: the pattern has to match at the start of the text
is_matchAtStart(pattern, text) ==
    /\ Len(pattern) <= Len(text)
    /\ \A i \in 1..Len(pattern) : AtomMatches(pattern[i], text[i])

\* Regex::is_match: the pattern matches somewhere in the text
is_match(pattern, text) ==
    \E start \in 0..(Len(text) - Len(pattern)) :
        \A i \in 1..Len(pattern) : AtomMatches(pattern[i], text[start + i])

should_ignore(path) ==
    \E i \in 1..Len(compiled_patterns) : is_match(compiled_patterns[i], path)

\* the notifier's EventKind.  Create, Modify and Remove carry a sub-kind that
\* process_event matches with `_`; the notifier reports a rename as the
\* Name sub-kind of Modify, written "Modify(Name)" here, and "Modify" stands
\* for the other sub-kinds of Modify (data, metadata)
EventKinds ==
    {"Any", "Access", "Create", "Modify", "Modify(Name)", "Remove", "Other"}

\* variant: the arm for Modify does not take the Name sub-kind
EventTypeOfDropRename(kind) ==
    CASE kind = "Create" -> Some("Created")
      [] kind = "Modify" -> Some("Modified")
      [] kind = "Remove" -> Some("Deleted")
      [] OTHER -> None

\* match event.kind { Create(_) => Created, Modify(_) => Modified,
\*                    Remove(_) => Deleted, _ => return None }
EventTypeOf(kind) ==
    CASE kind = "Create" -> Some("Created")
      [] kind \in {"Modify", "Modify(Name)"} -> Some("Modified")
      [] kind = "Remove" -> Some("Deleted")
      [] OTHER -> None

process_event(event) ==
    IF EventTypeOf(event.kind) = None THEN <<>>
    ELSE LET kept == SelectSeq(event.paths, LAMBDA path : ~should_ignore(path))
         IN [i \in 1..Len(kept) |->
                [path |-> kept[i], event_type |-> EventTypeOf(event.kind)[1]]]

\* what poll_events adds to the batch for one item taken by try_recv
ProcessItem(item) == IF item.ok THEN process_event(item) ELSE <<>>

\* variant: a delivery failure makes poll_events give up and return an empty
\* batch, losing what it had collected
DrainStepResetOnErr(evs, item) ==
    IF item.ok THEN evs \o process_event(item) ELSE <<>>

\* one iteration of the `while let Ok(result) = try_recv()` loop of
\* poll_events: `if let Ok(event) = result { events.extend(...) }`
DrainStep(evs, item) == evs \o ProcessItem(item)

RECURSIVE ProcessAll(_)
ProcessAll(items) ==
    IF items = <<>> THEN <<>>
    ELSE ProcessItem(Head(items)) \o ProcessAll(Tail(items))

(***************************************************************************)
(* context_from_path and SnapshotService::capture (snapshot.rs 32-129)     *)
(***************************************************************************)
\* Path::parent: the path without its last component, None for the root
Parent(path) ==
    IF path = <<"/">> \/ path = <<>> THEN None
    ELSE LET slashes == {i \in 1..Len(path) : path[i] = "/"}
             last == IF slashes = {} THEN 0
                     ELSE CHOOSE i \in slashes : \A j \in slashes : j <= i
         IN Some(SubSeq(path, 1, IF last = 1 THEN 1 ELSE last - 1))

\* what path.is_dir() / path.is_file() answer: a directory, a file, or
\* neither (the path does not exist, as after a Remove notification)
FsKinds == {"dir", "file", "missing"}

\* the file system the watch loop runs on: /a is a file, /b has been removed
WatchFs(path) ==
    IF path = PathA THEN "file"
    ELSE IF path = PathB THEN "missing"
    ELSE "dir"

\* detect_git_branch: the branch name or None
Branches == {None, Some("main")}

\* the watched tree is a work tree on branch main
WatchBranch == Some("main")

\* variant: the directory is the parent of the path, whatever the path is
context_from_pathParentOnly(path, k, branch) ==
    [active_file      |-> IF k = "file" THEN Some(path) ELSE None,
     active_directory |-> Some(IF Parent(path) = None THEN <<>>
                               ELSE Parent(path)[1]),
     git_branch       |-> branch]

\* context_from_path(path) on a path of kind k, with the branch query
\* answering branch
context_from_path(path, k, branch) ==
    LET dir == IF k = "dir" THEN path
               ELSE IF Parent(path) = None THEN <<>> ELSE Parent(path)[1]
    IN [active_file      |-> IF k = "file" THEN Some(path) ELSE None,
        active_directory |-> Some(dir),
        git_branch       |-> branch]

\* a byte of a path that is not part of a UTF-8 sequence, and the
\* replacement character U+FFFD
InvalidByte == "0xFF"

Replacement == "U+FFFD"

\* Path::to_string_lossy().to_string()
to_string_lossy(path) ==
    [i \in 1..Len(path) |->
        IF path[i] = InvalidByte THEN Replacement ELSE path[i]]

\* opt.as_ref().map(|p| p.to_string_lossy().to_string())
LossyOption(opt) == IF opt = None THEN None ELSE Some(to_string_lossy(opt[1]))

\* the snapshot capture builds before the write
CaptureSnapshot(id, now, context, notes) ==
    [new_snapshot(id, now) EXCEPT
        !.active_file = LossyOption(context.active_file),
        !.active_directory =
            LossyOption(context.active_directory),
        !.git_branch = context.git_branch,
        !.notes = notes]

(***************************************************************************)
(* Spec: cmd_watch (main.rs 220-269)                                       *)
(***************************************************************************)
MaxSent == 3

\* config.database.max_snapshots, a small value in place of the default 1000
max_snapshots == 2

\* Utc::now() at the n-th capture of the watch loop: the clock has advanced
\* by a second since the capture before (SpecStore covers equal and
\* out-of-order timestamps)
WatchNow(n) == DateTime(n, 0)

\* `for event in events`: the body runs once for every event of the batch
ForHasNextWhileRunning(flag, evs) == flag /\ evs # <<>>
ForHasNext(flag, evs) == evs # <<>>

\* `if let Err(e) = snapshot_service.capture(..)` logs: the for loop goes on
OnCaptureErrorReturn == "stopped"
OnCaptureError == "capture"

\* `if let Err(e) = snapshot_service.cleanup(..)` logs: back to the loop head
OnCleanupError == "loop"

\* after the for loop the cleanup follows, whatever the batch was
AfterBatchSkipEmpty(batch) == IF batch = <<>> THEN "loop" ELSE "cleanup"
AfterBatch(batch) == "cleanup"

InitWatch ==
    /\ DedupIdle
    /\ StoreEmpty
    /\ CallIdle
    /\ running = TRUE
    /\ queue = <<>>
    /\ pc = "loop"
    /\ events = <<>>
    /\ sent = 0
    /\ cycle = NoCycle

\* the notifier thread's callback: tx.send(res), for at most `limit` items
NotifyUpTo(limit) ==
    /\ pc # "stopped"
    /\ sent < limit
    /\ \E item \in Notifications : queue' = Append(queue, item)
    /\ sent' = sent + 1
    /\ UNCHANGED <<running, pc, events, cycle, storeVars, dedupVars, call>>

Notify == NotifyUpTo(MaxSent)

\* the Ctrl-C handler: r.store(false)
CtrlC ==
    /\ pc # "stopped"
    /\ running
    /\ running' = FALSE
    /\ cycle' = IF pc \in {"recv", "drain", "capture", "cleanup"}
                THEN [cycle EXCEPT !.stop_at = Len(cycle.captured)]
                ELSE cycle
    /\ UNCHANGED <<queue, pc, events, sent, storeVars, dedupVars, call>>

\* while running.load(..): a new polling cycle begins
LoopEnter ==
    /\ pc = "loop"
    /\ running
    /\ pc' = "recv"
    /\ cycle' = [NoCycle EXCEPT !.started = TRUE,
                                !.prev_err = cycle.prev_err \/ cycle.err]
    /\ UNCHANGED <<running, queue, events, sent, storeVars, dedupVars, call>>

\* while running.load(..) reads false: the loop is left
LoopExit ==
    /\ pc = "loop"
    /\ ~running
    /\ pc' = "stopped"
    /\ UNCHANGED <<running, queue, events, sent, cycle, storeVars, dedupVars, call>>

\* wait_for_events: recv_timeout returns Ok(Ok(event))
RecvEvent ==
    /\ pc = "recv"
    /\ queue # <<>>
    /\ Head(queue).ok
    /\ queue' = Tail(queue)
    /\ events' = process_event(Head(queue))
    /\ pc' = "drain"
    /\ cycle' = [cycle EXCEPT !.recv_queue = queue, !.taken = <<Head(queue)>>]
    /\ UNCHANGED <<running, sent, storeVars, dedupVars, call>>

\* wait_for_events: recv_timeout returns Ok(Err(e)); `_ => return events`
RecvError ==
    /\ pc = "recv"
    /\ queue # <<>>
    /\ ~Head(queue).ok
    /\ queue' = Tail(queue)
    /\ events' = <<>>
    /\ pc' = "capture"
    /\ cycle' = [cycle EXCEPT !.recv_queue = queue, !.taken = <<Head(queue)>>,
                              !.returned = TRUE, !.batch = <<>>]
    /\ UNCHANGED <<running, sent, storeVars, dedupVars, call>>

RecvBlocks(q) == FALSE

\* recv_timeout(timeout) gives up when the queue has stayed empty for the
\* timeout
RecvTimesOut(q) == q = <<>>

\* wait_for_events: recv_timeout returns Err(Timeout); `_ => return events`
RecvTimeout ==
    /\ pc = "recv"
    /\ RecvTimesOut(queue)
    /\ events' = <<>>
    /\ pc' = "capture"
    /\ cycle' = [cycle EXCEPT !.timeout = TRUE, !.returned = TRUE, !.batch = <<>>]
    /\ UNCHANGED <<running, queue, sent, storeVars, dedupVars, call>>

\* poll_events: try_recv returns an item
DrainItem ==
    /\ pc = "drain"
    /\ queue # <<>>
    /\ queue' = Tail(queue)
    /\ events' = DrainStep(events, Head(queue))
    /\ cycle' = [cycle EXCEPT !.taken = Append(cycle.taken, Head(queue))]
    /\ UNCHANGED <<running, pc, sent, storeVars, dedupVars, call>>

\* poll_events: try_recv finds the queue empty; wait_for_events returns
DrainEnd ==
    /\ pc = "drain"
    /\ queue = <<>>
    /\ pc' = "capture"
    /\ cycle' = [cycle EXCEPT !.returned = TRUE, !.batch = events]
    /\ UNCHANGED <<running, queue, events, sent, storeVars, dedupVars, call>>

CaptureFileEventsLogged(rows, id, now, event) ==
    IF \E r \in rows : r.id = id THEN rows
    ELSE rows \cup {[id |-> id, timestamp |-> to_rfc3339(now),
                     path |-> event.path, event_type |-> "modified"]}

\* the file_events table after the loop's body has run for an event:
\* capture writes with insert_snapshot only, nothing is written here
CaptureFileEvents(rows, id, now, event) == rows

\* the body of the for loop: context_from_path, then capture(&context, None)
\* with a fresh id and the clock's reading; io = FALSE is a failing write
CaptureCall(io) ==
    /\ pc = "capture"
    /\ ForHasNext(running, events)
    /\ LET now      == WatchNow(next_id + 1)
            event    == Head(events)
            context  == context_from_path(event.path, WatchFs(event.path),
                                          WatchBranch)
            snapshot == CaptureSnapshot(next_id + 1, now, context, None)
            ok       == InsertSucceeds(snapshots, snapshot, io)
        IN /\ snapshots' = insert_snapshot(snapshots, snapshot, io)
           /\ pc' = IF ok THEN "capture" ELSE OnCaptureError
           /\ cycle' = [cycle EXCEPT
                           !.captured = Append(cycle.captured, event.path),
                           !.err = cycle.err \/ ~ok]
    /\ next_id' = next_id + 1
    /\ events' = Tail(events)
    /\ file_events' = CaptureFileEvents(file_events, next_id + 1,
                                        WatchNow(next_id + 1), Head(events))
    /\ UNCHANGED <<running, queue, sent, db_op, dedupVars, call>>

CaptureOk == CaptureCall(TRUE)

CaptureErr == CaptureCall(FALSE)

\* the for loop ends
CaptureDone ==
    /\ pc = "capture"
    /\ ~ForHasNext(running, events)
    /\ pc' = AfterBatch(cycle.batch)
    /\ UNCHANGED <<running, queue, events, sent, cycle, storeVars, dedupVars, call>>

\* snapshot_service.cleanup(config.database.max_snapshots) returns Ok
CleanupOk ==
    /\ pc = "cleanup"
    /\ \E r \in cleanup_old_snapshots(snapshots, max_snapshots) :
        /\ snapshots' = r.rows
    /\ pc' = "loop"
    /\ cycle' = [cycle EXCEPT !.cleanups = cycle.cleanups + 1,
                              !.cleanup_ok = TRUE,
                              !.pending = Len(events)]
    /\ UNCHANGED <<running, queue, events, sent, next_id, db_op, file_events,
                   dedupVars, call>>

\* snapshot_service.cleanup(..) returns Err: logged
CleanupErr ==
    /\ pc = "cleanup"
    /\ pc' = OnCleanupError
    /\ cycle' = [cycle EXCEPT !.cleanups = cycle.cleanups + 1,
                              !.cleanup_ok = FALSE,
                              !.pending = Len(events),
                              !.err = TRUE]
    /\ UNCHANGED <<running, queue, events, sent, storeVars, dedupVars, call>>

Next ==
    \/ Notify
    \/ CtrlC
    \/ LoopEnter
    \/ LoopExit
    \/ RecvEvent
    \/ RecvError
    \/ RecvTimeout
    \/ DrainItem
    \/ DrainEnd
    \/ CaptureOk
    \/ CaptureErr
    \/ CaptureDone
    \/ CleanupOk
    \/ CleanupErr

Spec == InitWatch /\ [][Next]_vars

(***************************************************************************)
(* Properties of deduplicate_events (SpecDedup)                            *)
(***************************************************************************)
PathsOf(evs) == {evs[i].path : i \in 1..Len(evs)}

\* index of the last event for path p in evs
LastIndexOf(evs, p) ==
    CHOOSE i \in 1..Len(evs) :
        /\ evs[i].path = p
        /\ \A j \in (i + 1)..Len(evs) : evs[j].path # p

\* C2: deduplicate_events returns exactly one event for each distinct path of
\* the batch and none for any other path, so the length of the result is the
\* number of distinct paths; every returned event is one of the input events
\* for its path.
C2_OneEventPerDistinctPath ==
    dd_pc = "ret" =>
        /\ \A p \in PathsOf(dd_events) :
               Cardinality({i \in 1..Len(dd_result) : dd_result[i].path = p}) = 1
        /\ PathsOf(dd_result) = PathsOf(dd_events)
        /\ Len(dd_result) = Cardinality(PathsOf(dd_events))
        /\ \A i \in 1..Len(dd_result) :
               \E j \in 1..Len(dd_events) : dd_events[j] = dd_result[i]

\* a batch of three events on two paths has been deduplicated to two events
C2_Witness ==
    /\ dd_pc = "ret"
    /\ Len(dd_events) = 3
    /\ Cardinality(PathsOf(dd_events)) = 2
    /\ Len(dd_result) = 2

\* C3: the event deduplicate_events keeps for a path is the last event for
\* that path in the batch's arrival order, so its kind is the kind of the
\* latest event for the path.
C3_LastWriteWins ==
    dd_pc = "ret" =>
        \A i \in 1..Len(dd_result) :
            /\ dd_result[i].path \in PathsOf(dd_events)
            /\ dd_result[i] = dd_events[LastIndexOf(dd_events, dd_result[i].path)]

\* a path with a Created event followed by a Modified one kept the Modified
C3_Witness ==
    /\ dd_pc = "ret"
    /\ \E i, j \in 1..Len(dd_events) :
        /\ i < j
        /\ dd_events[i].path = dd_events[j].path
        /\ dd_events[i].event_type = "Created"
        /\ dd_events[j].event_type = "Modified"
        /\ j = LastIndexOf(dd_events, dd_events[j].path)
        /\ \E k \in 1..Len(dd_result) : dd_result[k] = dd_events[j]

(***************************************************************************)
(* Properties of cleanup_old_snapshots (SpecStore)                         *)
(***************************************************************************)
CleanupDone == db_op.op = "cleanup" /\ db_op.ok

\* the rows the last call deleted
DeletedRows == db_op.before \ snapshots

\* C4: cleanup(max) on a store of total_before snapshots leaves exactly
\* min(total_before, max) snapshots and returns max(0, total_before - max).
C4_CleanupCounts ==
    CleanupDone =>
        /\ Cardinality(snapshots) = Min(Cardinality(db_op.before), db_op.max)
        /\ db_op.deleted = Max(0, Cardinality(db_op.before) - db_op.max)
        /\ snapshots \subseteq db_op.before

\* a cleanup that had rows to delete and rows to keep
C4_Witness ==
    /\ CleanupDone
    /\ Cardinality(db_op.before) = 3
    /\ db_op.max = 2
    /\ db_op.deleted = 1

\* C5: a second cleanup(max) issued right after a successful cleanup(max),
\* with no insert in between, deletes 0 snapshots and leaves the store as the
\* first call left it.
C5_CleanupIdempotent ==
    (CleanupDone /\ db_op.prev.op = "cleanup" /\ db_op.prev.ok
        /\ db_op.prev.max = db_op.max) =>
        /\ db_op.deleted = 0
        /\ snapshots = db_op.before

\* the second of two cleanups with the same limit, on a store the first one
\* had trimmed to that limit
C5_Witness ==
    /\ CleanupDone
    /\ db_op.prev.op = "cleanup" /\ db_op.prev.ok
    /\ db_op.prev.max = db_op.max
    /\ db_op.max = 1
    /\ Cardinality(db_op.before) = 1

\* C6: after cleanup(max) every surviving snapshot has a timestamp greater
\* than or equal to that of every snapshot the call deleted, whatever the
\* order in which the snapshots were inserted.
C6_KeepsMostRecent ==
    CleanupDone =>
        \A s \in snapshots, d \in DeletedRows :
            TimeLeq(parse_from_rfc3339(d.timestamp),
                    parse_from_rfc3339(s.timestamp))

\* the snapshot inserted last carried the oldest timestamp and is the one the
\* cleanup deleted, while a snapshot inserted before it survived
C6_Witness ==
    /\ CleanupDone
    /\ db_op.prev.op = "insert" /\ db_op.prev.ok
    /\ db_op.prev.id \in StoredIds(DeletedRows)
    /\ snapshots # {}
    /\ \E s \in snapshots, d \in DeletedRows : s.timestamp # d.timestamp

(***************************************************************************)
(* Properties of the watch loop (Spec)                                     *)
(***************************************************************************)
PathSeq(evs) == [i \in 1..Len(evs) |-> evs[i].path]

IsPrefix(a, b) == Len(a) <= Len(b) /\ SubSeq(b, 1, Len(a)) = a

\* a polling cycle has run to its end (the loop is back at its head, or left)
CycleEnded == cycle.started /\ pc \in {"loop", "stopped"}

\* C1: in every polling cycle the batch is deduplicated before capture, so
\* the cycle makes at most one capture call per distinct path, however many
\* events for that path were drained in the cycle.
C1_OneCapturePerPathPerCycle ==
    \A i, j \in 1..Len(cycle.captured) :
        i # j => cycle.captured[i] # cycle.captured[j]

\* C7: retention runs exactly once per iteration of the watch loop, after all
\* captures of the iteration and also when the batch is empty after a
\* timeout; at the end of an iteration whose cleanup succeeded the store
\* holds at most max_snapshots snapshots.
C7_RetentionOncePerCycle ==
    /\ cycle.cleanups <= 1
    /\ CycleEnded =>
        /\ cycle.cleanups = 1
        /\ cycle.pending = 0
        /\ Len(cycle.captured) = Len(cycle.batch)
        /\ cycle.cleanup_ok => Cardinality(snapshots) <= max_snapshots

\* an iteration whose receive timed out with an empty batch has ended with a
\* successful cleanup that trimmed what an earlier, failed cleanup had left
C7_Witness ==
    /\ pc = "loop"
    /\ cycle.started /\ cycle.timeout /\ cycle.batch = <<>>
    /\ cycle.cleanup_ok
    /\ cycle.prev_err
    /\ next_id > max_snapshots
    /\ Cardinality(snapshots) = max_snapshots

\* C8: no store error ends the watch loop: after a failed capture or a failed
\* cleanup the loop goes on, and the loop is left only from its head with the
\* shutdown flag set.
C8_StoreErrorsDoNotEndLoop ==
    [][(pc' = "stopped" /\ pc # "stopped") => (pc = "loop" /\ ~running)]_vars

\* a capture call is made in a polling cycle that follows a cycle in which a
\* store call failed
C8_Witness ==
    /\ cycle.prev_err
    /\ running
    /\ cycle.captured # <<>>

\* C9: when the shutdown flag is set while a polling cycle is in progress,
\* every event of the batch taken from the queue still gets its capture call
\* and the cycle's cleanup still runs before the loop is left.
C9_ShutdownCompletesBatch ==
    (pc = "stopped" /\ cycle.started) =>
        /\ cycle.captured = PathSeq(cycle.batch)
        /\ cycle.cleanups = 1
        /\ cycle.pending = 0

\* the flag was set after the first of a batch of two or more events had been
\* captured, and the loop has been left
C9_Witness ==
    /\ pc = "stopped"
    /\ cycle.stop_at = 1
    /\ Len(cycle.batch) >= 2
    /\ Len(cycle.captured) = Len(cycle.batch)

\* C10: whenever the blocking receive of wait_for_events obtains an item
\* before the timeout, the same call drains every item that was queued at
\* that moment into the returned batch, in queue order; when no item arrives
\* before the timeout the batch is empty and nothing was taken from the
\* queue.
C10_ReceiveThenDrain ==
    cycle.returned =>
        IF cycle.timeout
        THEN cycle.batch = <<>> /\ cycle.taken = <<>>
        ELSE /\ IsPrefix(cycle.recv_queue, cycle.taken)
             /\ cycle.batch = ProcessAll(cycle.taken)

\* C11: a delivery-failure item produces no WatchEvent and does not halt the
\* stream: an item leaves the queue only by being taken by a call of
\* wait_for_events, taking a failure item leaves the batch under
\* construction as it was, and the batch a call returns holds the events of
\* every notification the call took, so no notification queued behind a
\* failure is discarded with it (it is delivered by the call that takes it).
C11_FailureDoesNotHaltStream ==
    /\ [](cycle.returned => cycle.batch = ProcessAll(cycle.taken))
    /\ [][Len(queue') < Len(queue) =>
            /\ queue' = Tail(queue)
            /\ cycle'.taken = Append(cycle.taken, Head(queue))
            /\ (~Head(queue).ok => events' = events)]_vars

\* a call took a notification, then a delivery failure, then a notification
\* with an unfiltered path, and returned the events of both notifications
C11_Witness ==
    /\ cycle.returned
    /\ Len(cycle.taken) = 3
    /\ cycle.taken[1].ok /\ ~cycle.taken[2].ok /\ cycle.taken[3].ok
    /\ process_event(cycle.taken[1]) # <<>>
    /\ process_event(cycle.taken[3]) # <<>>
    /\ cycle.batch =
          process_event(cycle.taken[1]) \o process_event(cycle.taken[3])

(***************************************************************************)
(* SpecPoll: poll_events and wait_for_events as whole calls on a queue the *)
(* notifier has filled with notifications of every kind.                   *)
(***************************************************************************)
MaxQueue == 2

\* event.paths: one path, or two (a rename carries the old and the new one)
PathLists == {<<PathA>>, <<PathGit>>, <<PathGit, PathB>>, <<PathA, PathB>>}

PollItems ==
    {ErrItem} \cup {OkEvent(kind, paths) : kind \in EventKinds,
                                           paths \in PathLists}

\* the while loop of poll_events run until try_recv finds the queue empty
RECURSIVE DrainAll(_, _)
DrainAll(evs, items) ==
    IF items = <<>> THEN evs
    ELSE DrainAll(DrainStep(evs, Head(items)), Tail(items))

Returned(taken, batch, timeout, recv_queue) ==
    [NoCycle EXCEPT !.started = TRUE, !.returned = TRUE, !.taken = taken,
                    !.batch = batch, !.timeout = timeout,
                    !.recv_queue = recv_queue]

InitPoll ==
    /\ queue \in SeqsUpTo(PollItems, MaxQueue)
    /\ pc = "call"
    /\ running = TRUE
    /\ events = <<>>
    /\ sent = Len(queue)
    /\ cycle = NoCycle
    /\ StoreEmpty
    /\ DedupIdle
    /\ CallIdle

\* watcher.poll_events()
PollEvents ==
    /\ pc = "call"
    /\ pc' = "polled"
    /\ events' = DrainAll(<<>>, queue)
    /\ queue' = <<>>
    /\ cycle' = Returned(queue, events', FALSE, <<>>)
    /\ UNCHANGED <<running, sent, storeVars, dedupVars, call>>

\* watcher.wait_for_events(timeout)
WaitForEvents ==
    /\ pc = "call"
    /\ pc' = "waited"
    /\ IF queue = <<>>
       THEN /\ events' = <<>>
            /\ queue' = queue
            /\ cycle' = Returned(<<>>, <<>>, TRUE, <<>>)
       ELSE IF ~Head(queue).ok
       THEN /\ events' = <<>>
            /\ queue' = Tail(queue)
            /\ cycle' = Returned(<<Head(queue)>>, <<>>, FALSE, queue)
       ELSE /\ events' = DrainAll(process_event(Head(queue)), Tail(queue))
            /\ queue' = <<>>
            /\ cycle' = Returned(queue, events', FALSE, queue)
    /\ UNCHANGED <<running, sent, storeVars, dedupVars, call>>

NextPoll == PollEvents \/ WaitForEvents

SpecPoll == InitPoll /\ [][NextPoll]_vars

\* the events a notification stands for when the kinds in `kinds` are the
\* ones turned into WatchEvents: one per path that should_ignore lets through
EventsFor(item, kinds) ==
    IF item.ok /\ item.kind \in DOMAIN kinds
    THEN LET kept == SelectSeq(item.paths, LAMBDA path : ~should_ignore(path))
         IN [i \in 1..Len(kept) |->
                [path |-> kept[i], event_type |-> kinds[item.kind]]]
    ELSE <<>>

RECURSIVE EventsForAll(_, _)
EventsForAll(items, kinds) ==
    IF items = <<>> THEN <<>>
    ELSE EventsFor(Head(items), kinds) \o EventsForAll(Tail(items), kinds)

KindsWithoutRename ==
    [k \in {"Create", "Modify", "Remove"} |->
        CASE k = "Create" -> "Created"
          [] k = "Modify" -> "Modified"
          [] k = "Remove" -> "Deleted"]

KindsWithRename ==
    [k \in {"Create", "Modify", "Modify(Name)", "Remove"} |->
        CASE k = "Create" -> "Created"
          [] k \in {"Modify", "Modify(Name)"} -> "Modified"
          [] k = "Remove" -> "Deleted"]

\* C12 as stated: only create, modify and remove notifications become
\* WatchEvents (Created, Modified, Deleted); every other notification, a
\* rename included, yields no WatchEvent for any path it carries.
C12_RenameYieldsNothing ==
    cycle.returned => cycle.batch = EventsForAll(cycle.taken, KindsWithoutRename)

\* C12 amended: create, modify and remove notifications become Created,
\* Modified and Deleted WatchEvents, where a rename, which the notifier
\* reports as a modify notification, becomes a Modified WatchEvent for each
\* path it carries; every other notification yields none, and no WatchEvent
\* is ever of the Renamed type.
C12_OnlyCreateModifyRemove ==
    cycle.returned =>
        /\ cycle.batch = EventsForAll(cycle.taken, KindsWithRename)
        /\ \A i \in 1..Len(cycle.batch) : cycle.batch[i].event_type # "Renamed"

\* a call took a rename of /a to /b and returned a Modified event for each
C12_Witness ==
    /\ cycle.returned
    /\ cycle.taken = <<OkEvent("Modify(Name)", <<PathA, PathB>>)>>
    /\ cycle.batch = <<[path |-> PathA, event_type |-> "Modified"],
                       [path |-> PathB, event_type |-> "Modified"]>>

\* the text contains a match of the pattern: some stretch of consecutive
\* characters fits the pattern's atoms one by one
ContainsMatch(text, pattern) ==
    \E first \in 1..Len(text) : \E last \in first..Len(text) :
        /\ last - first + 1 = Len(pattern)
        /\ \A k \in 1..Len(pattern) :
               AtomMatches(pattern[k], text[first + k - 1])

\* the path matches at least one of the ignore patterns that compile
MatchesIgnorePattern(path) ==
    \E n \in 1..Len(ignore_patterns) :
        /\ RegexNew(ignore_patterns[n]) # None
        /\ ContainsMatch(path, ignore_patterns[n])

\* C13: a path is filtered out exactly when its string form contains a match
\* of at least one compiled ignore pattern (regular-expression search): no
\* WatchEvent returned by poll_events or wait_for_events carries such a
\* path, and every path of a create, modify or remove notification taken by
\* the call that matches no compiled pattern is returned, with the type of
\* its notification.
C13_FilteredIffPatternMatches ==
    cycle.returned =>
        /\ \A i \in 1..Len(cycle.batch) :
               ~MatchesIgnorePattern(cycle.batch[i].path)
        /\ \A n \in 1..Len(cycle.taken) :
               LET item == cycle.taken[n]
               IN (item.ok /\ item.kind \in {"Create", "Modify", "Remove"}) =>
                     \A k \in 1..Len(item.paths) :
                         ~MatchesIgnorePattern(item.paths[k]) =>
                             \E i \in 1..Len(cycle.batch) :
                                 /\ cycle.batch[i].path = item.paths[k]
                                 /\ cycle.batch[i].event_type =
                                        KindsWithoutRename[item.kind]

\* a call took a remove notification carrying /.g, which the pattern \.g
\* matches in its middle, and /b, and returned the event of /b alone
C13_Witness ==
    /\ cycle.returned
    /\ cycle.taken = <<OkEvent("Remove", <<PathGit, PathB>>)>>
    /\ cycle.batch = <<[path |-> PathB, event_type |-> "Deleted"]>>
    /\ MatchesIgnorePattern(PathGit)
    /\ ~is_match(compiled_patterns[1], SubSeq(PathGit, 1, 2))

(***************************************************************************)
(* SpecCapture: SnapshotService::capture (snapshot.rs 32-44) called once   *)
(* on a store that holds earlier snapshots                                 *)
(***************************************************************************)
\* a path with a byte that is not UTF-8
PathRaw == <<"/", InvalidByte>>

\* Ok(value) and Err(error) of a Result
Ok(value) == [ok |-> TRUE, value |-> value]

Err(error) == [ok |-> FALSE, error |-> error]

\* variant: a failed write is attempted a second time
captureRetry(rows, id, now, context, notes, ios) ==
    LET snapshot == CaptureSnapshot(id, now, context, notes)
        first    == InsertSucceeds(rows, snapshot, ios[1])
        second   == InsertSucceeds(rows, snapshot, ios[2])
    IN IF first
       THEN [rows |-> insert_snapshot(rows, snapshot, ios[1]), writes |-> 1,
             result |-> Ok(snapshot)]
       ELSE [rows |-> insert_snapshot(rows, snapshot, ios[2]), writes |-> 2,
             result |-> IF second THEN Ok(snapshot)
                        ELSE Err([kind |-> "Database", write |-> 2])]

\* capture(&self, context, notes) with the id and the clock reading that
\* new_snapshot() obtains; ios[n] tells whether the storage engine lets the
\* n-th write of the call succeed.  `self.db.insert_snapshot(&snapshot)?`
\* is the only write and its error is the error of the call.
capture(rows, id, now, context, notes, ios) ==
    LET snapshot == CaptureSnapshot(id, now, context, notes)
    IN [rows   |-> insert_snapshot(rows, snapshot, ios[1]),
        writes |-> 1,
        result |-> IF InsertSucceeds(rows, snapshot, ios[1])
                   THEN Ok(snapshot)
                   ELSE Err([kind |-> "Database", write |-> 1])]

\* get_snapshot(id): the row with that id, its timestamp parsed.  Every
\* stored text was written by to_rfc3339, so the parse does not fail.
get_snapshot(rows, id) ==
    IF id \in StoredIds(rows)
    THEN LET r == CHOOSE r \in rows : r.id = id
         IN Some([r EXCEPT !.timestamp = parse_from_rfc3339(r.timestamp)])
    ELSE None

CaptureContexts ==
    {context_from_path(path, k, branch) :
        path \in {PathA, PathRaw}, k \in FsKinds, branch \in Branches}

Notes == {None, Some("n")}

CaptureTimes == {DateTime(9, 0), DateTime(9, 500001000)}

\* stores of earlier captures, one for every set of ids
StoresBefore ==
    {{Row(CaptureSnapshot(id, DateTime(8, 0),
                          context_from_path(PathB, "file", None), None)) :
         id \in S} : S \in SUBSET Ids}

InitCapture ==
    /\ snapshots \in StoresBefore
    /\ next_id = 0
    /\ db_op = NoOp
    /\ file_events = {}
    /\ call \in [fn : {"capture"}, pc : {"call"}, id : Ids,
                  now : CaptureTimes, context : CaptureContexts,
                  notes : Notes, ios : [1..2 -> BOOLEAN]]
    /\ DedupIdle
    /\ WatchIdle

\* service.capture(&context, notes)
ServiceCapture ==
    /\ call.fn = "capture"
    /\ call.pc = "call"
    /\ LET r == capture(snapshots, call.id, call.now, call.context,
                        call.notes, call.ios)
       IN /\ snapshots' = r.rows
          /\ call' = [fn |-> "capture", pc |-> "ret", id |-> call.id,
                      now |-> call.now, context |-> call.context,
                      notes |-> call.notes, ios |-> call.ios,
                      before |-> snapshots, writes |-> r.writes,
                      result |-> r.result]
    /\ UNCHANGED <<next_id, db_op, dedupVars, watchVars, file_events>>

NextCapture == ServiceCapture

SpecCapture == InitCapture /\ [][NextCapture]_vars

CaptureReturned == call.fn = "capture" /\ call.pc = "ret"

\* C14: when the store write of a capture fails, capture returns that error
\* to its caller, has made no second write attempt, and the store holds
\* exactly the snapshots it held before the call.
C14_FailedWriteLeavesStore ==
    (/\ CaptureReturned
     /\ ~InsertSucceeds(call.before,
                        CaptureSnapshot(call.id, call.now, call.context,
                                        call.notes), call.ios[1])) =>
        /\ ~call.result.ok
        /\ call.result.error = [kind |-> "Database", write |-> 1]
        /\ call.writes = 1
        /\ snapshots = call.before

\* the storage engine refused the first write and would have accepted a
\* second one, of an id that was not stored; the store is not empty
C14_Witness ==
    /\ CaptureReturned
    /\ ~call.ios[1] /\ call.ios[2]
    /\ call.id \notin StoredIds(call.before)
    /\ call.before # {}
    /\ ~call.result.ok

\* C15: a successful capture(context, note) adds exactly one snapshot to the
\* store with a single write and returns it: active_file, active_directory
\* (in their string form) and git_branch are the context's, notes is the
\* note, reading the snapshot back by its id gives the same field values,
\* and no snapshot stored before has changed.
C15_CaptureAddsOneSnapshot ==
    (CaptureReturned /\ call.result.ok) =>
        LET s == call.result.value
        IN /\ call.writes = 1
           /\ s.id \notin StoredIds(call.before)
           /\ call.before \subseteq snapshots
           /\ Cardinality(snapshots) = Cardinality(call.before) + 1
           /\ {r \in snapshots : r.id = s.id} = snapshots \ call.before
           /\ s.active_file =
                  LossyOption(call.context.active_file)
           /\ s.active_directory =
                  LossyOption(call.context.active_directory)
           /\ s.git_branch = call.context.git_branch
           /\ s.notes = call.notes
           /\ get_snapshot(snapshots, s.id) = Some(s)

\* a capture with a note, of a file on a branch, at an instant with a
\* fraction of a second, into a store that held two snapshots
C15_Witness ==
    /\ CaptureReturned
    /\ call.result.ok
    /\ call.notes = Some("n")
    /\ call.context.active_file = Some(PathA)
    /\ call.context.git_branch = Some("main")
    /\ call.now = DateTime(9, 500001000)
    /\ Cardinality(call.before) = 2
    /\ get_snapshot(snapshots, call.id)[1].notes = Some("n")

\* C16: after any sequence of captures, imports and cleanups no two
\* snapshots in the store have the same id: an insert of a snapshot whose id
\* is already stored fails and leaves the store unchanged, and an import
\* leaves every snapshot that was stored as it was.
C16_IdsAreUnique ==
    /\ \A r1, r2 \in snapshots : r1.id = r2.id => r1 = r2
    /\ (db_op.op = "insert" /\ db_op.id \in StoredIds(db_op.before)) =>
           (~db_op.ok /\ snapshots = db_op.before)
    /\ db_op.op = "import" =>
           /\ db_op.before \subseteq snapshots
           /\ Cardinality(snapshots) =
                  Cardinality(db_op.before) + db_op.imported
           /\ db_op.imported + db_op.skipped = db_op.len

\* an import of a file of two snapshots into a store that held a snapshot
\* with the id of one of them under another timestamp: one snapshot is
\* imported, the other skipped, and the stored one is as it was
C16_Witness ==
    /\ db_op.op = "import"
    /\ db_op.ok
    /\ db_op.len = 2
    /\ db_op.imported = 1
    /\ db_op.skipped = 1
    /\ \E r \in db_op.before :
           /\ r.id = 1
           /\ r.timestamp = to_rfc3339(DateTime(10, 0))
           /\ r \in snapshots
    /\ \E r \in snapshots \ db_op.before : r.id = 2

(***************************************************************************)
(* SpecContext: context_from_path (snapshot.rs 107-129) called once on a   *)
(* path of any shape, in any state of the file system                      *)
(***************************************************************************)
MaxPathLen == 3

\* a path as Path sees it: the empty path, the root, or components
\* separated by single slashes
IsNormalPath(path) ==
    \/ path = <<>>
    \/ path = <<"/">>
    \/ /\ path[Len(path)] # "/"
       /\ \A i \in 1..(Len(path) - 1) : ~(path[i] = "/" /\ path[i + 1] = "/")

ContextPaths ==
    {path \in SeqsUpTo({"/", "a", "b"}, MaxPathLen) : IsNormalPath(path)}

\* what the file system can answer for the path: the root is a directory,
\* the empty path is nothing
KindsOf(path) ==
    IF path = <<"/">> THEN {"dir"}
    ELSE IF path = <<>> THEN {"missing"}
    ELSE FsKinds

\* `dir` of context_from_path
DirOf(path, k) ==
    IF k = "dir" THEN path
    ELSE IF Parent(path) = None THEN <<>> ELSE Parent(path)[1]

\* does `dir` exist: a path that is a directory does, the empty path does
\* not, the parent directory of a file does, and the parent directory of a
\* missing path exists or not (parent_exists; the root always exists)
DirExists(path, k, parent_exists) ==
    IF k = "dir" THEN TRUE
    ELSE IF DirOf(path, k) = <<>> THEN FALSE
    ELSE IF k = "file" THEN TRUE
    ELSE parent_exists

\* detect_git_branch(dir): the command cannot be started in a directory
\* that does not exist (`.output().ok()?` gives None); in one that exists
\* git answers with a branch name or fails
detect_git_branch(dir_exists, answer) ==
    IF dir_exists THEN answer ELSE None

InitContext ==
    /\ \E path \in ContextPaths, k \in FsKinds, parent_exists \in BOOLEAN,
          answer \in Branches :
        /\ k \in KindsOf(path)
        /\ (k # "missing" \/ Parent(path) = Some(<<"/">>)) => parent_exists
        /\ call = [fn |-> "context_from_path", pc |-> "call", path |-> path,
                   k |-> k, parent_exists |-> parent_exists,
                   answer |-> answer]
    /\ StoreEmpty
    /\ DedupIdle
    /\ WatchIdle

\* context_from_path(path); git_dir is the directory detect_git_branch and
\* find_git_root are run against
ContextFromPath ==
    /\ call.fn = "context_from_path"
    /\ call.pc = "call"
    /\ LET exists == DirExists(call.path, call.k, call.parent_exists)
       IN call' = [fn |-> "context_from_path", pc |-> "ret",
                   path |-> call.path, k |-> call.k,
                   parent_exists |-> call.parent_exists,
                   answer |-> call.answer,
                   git_dir |-> DirOf(call.path, call.k),
                   git_dir_exists |-> exists,
                   result |-> context_from_path(call.path, call.k,
                                 detect_git_branch(exists, call.answer))]
    /\ UNCHANGED <<storeVars, dedupVars, watchVars>>

NextContext == ContextFromPath

SpecContext == InitContext /\ [][NextContext]_vars

ContextReturned == call.fn = "context_from_path" /\ call.pc = "ret"

\* C17: the context built from a path has no active_file and the path as
\* active_directory when the path is a directory; the path as active_file
\* and the path's parent as active_directory when it is a file; in every
\* case, a missing path included, active_directory is set.
C17_ContextFromPath ==
    ContextReturned =>
        /\ call.result.active_directory # None
        /\ call.k = "dir" =>
               /\ call.result.active_file = None
               /\ call.result.active_directory = Some(call.path)
        /\ call.k = "file" =>
               /\ call.result.active_file = Some(call.path)
               /\ Parent(call.path) # None
               /\ call.result.active_directory = Parent(call.path)

\* the context of the file a/b in the directory a
C17_Witness ==
    /\ ContextReturned
    /\ call.k = "file"
    /\ call.path = <<"a", "/", "b">>
    /\ call.result.active_file = Some(call.path)
    /\ call.result.active_directory = Some(<<"a">>)

\* C18 as stated: whenever the branch query is run while a context is
\* built, the directory it is run against exists.
C18_BranchQueryDirExists ==
    ContextReturned => call.git_dir_exists

(***************************************************************************)
(* Gatekeeper (gatekeeper.rs 78-184): analyze and its three checks         *)
(***************************************************************************)
\* get_recent_snapshots(50), .take(10), len() < 5 and unique_dirs.len() >= 5,
\* len() < 20 and get(19), Duration::minutes(30)
WindowSize == 50

SwitchWindow == 10

SwitchMinSnapshots == 5

SwitchMinDirs == 5

BurstSnapshots == 20

BurstMinutes == 30

NanosPerSec == 1000000000

\* chrono::Duration: whole seconds and the nanoseconds beyond them
Duration(secs, nanos) == [secs |-> secs, nanos |-> nanos]

DurationMinutes(minutes) == Duration(60 * minutes, 0)

\* a.signed_duration_since(b)
signed_duration_since(a, b) ==
    IF a.nanos >= b.nanos
    THEN Duration(a.secs - b.secs, a.nanos - b.nanos)
    ELSE Duration(a.secs - b.secs - 1, a.nanos + NanosPerSec - b.nanos)

\* the order of Duration
DurationLess(x, y) ==
    x.secs < y.secs \/ (x.secs = y.secs /\ x.nanos < y.nanos)

\* #[derive(Ord)] on NudgePriority { Low, Medium, High }
PriorityRank(priority) ==
    CASE priority = "Low" -> 0
      [] priority = "Medium" -> 1
      [] priority = "High" -> 2

Nudge(nudge_type, priority) ==
    [nudge_type |-> nudge_type, priority |-> priority]

\* SELECT ... ORDER BY timestamp DESC LIMIT ?1, each row read into a
\* Snapshot: the possible results, one for every order of the rows whose
\* timestamp texts are equal
RECURSIVE get_recent_snapshots(_, _)
get_recent_snapshots(rows, limit) ==
    IF rows = {} \/ limit = 0 THEN {<<>>}
    ELSE UNION {{<<[r EXCEPT !.timestamp = parse_from_rfc3339(r.timestamp)]>>
                     \o rest :
                    rest \in get_recent_snapshots(rows \ {r}, limit - 1)} :
                r \in LatestRows(rows)}

\* variant: a focus time equal to the limit counts as exceeding it
check_focus_timeAtLeast(window, now, config) ==
    IF window = <<>> THEN None
    ELSE LET oldest == window[Len(window)]
             newest == window[1]
             focus_duration == signed_duration_since(now, oldest.timestamp)
             max_focus == DurationMinutes(config.max_focus_time_minutes)
         IN IF /\ oldest.active_directory = newest.active_directory
               /\ ~DurationLess(focus_duration, max_focus)
            THEN Some(Nudge("TakeBreak", "Medium"))
            ELSE None

\* check_focus_time(&snapshots) with the clock reading now
check_focus_time(window, now, config) ==
    IF window = <<>> THEN None
    ELSE LET oldest == window[Len(window)]
             newest == window[1]
             focus_duration == signed_duration_since(now, oldest.timestamp)
             max_focus == DurationMinutes(config.max_focus_time_minutes)
         IN IF /\ oldest.active_directory = newest.active_directory
               /\ DurationLess(max_focus, focus_duration)
            THEN Some(Nudge("TakeBreak", "Medium"))
            ELSE None

\* variant: more than five distinct directories are needed
check_context_switchesMoreThan(window) ==
    IF Len(window) < SwitchMinSnapshots THEN None
    ELSE LET unique_dirs ==
                 {window[i].active_directory[1] :
                     i \in {i \in 1..Min(SwitchWindow, Len(window)) :
                               window[i].active_directory # None}}
         IN IF Cardinality(unique_dirs) > SwitchMinDirs
            THEN Some(Nudge("ContextSwitch", "Low"))
            ELSE None

\* check_context_switches(&snapshots)
check_context_switches(window) ==
    IF Len(window) < SwitchMinSnapshots THEN None
    ELSE LET unique_dirs ==
                 {window[i].active_directory[1] :
                     i \in {i \in 1..Min(SwitchWindow, Len(window)) :
                               window[i].active_directory # None}}
         IN IF Cardinality(unique_dirs) >= SwitchMinDirs
            THEN Some(Nudge("ContextSwitch", "Low"))
            ELSE None

check_activity_levelAtMost(window) ==
    IF Len(window) < BurstSnapshots THEN None
    ELSE LET newest == window[1]
             oldest == window[BurstSnapshots]
             duration == signed_duration_since(newest.timestamp, oldest.timestamp)
         IN IF DurationLess(duration, DurationMinutes(BurstMinutes))
               \/ duration = DurationMinutes(BurstMinutes)
            THEN Some(Nudge("HighActivity", "Low")) ELSE None

\* check_activity_level(&snapshots)
check_activity_level(window) ==
    IF Len(window) < BurstSnapshots THEN None
    ELSE LET newest == window[1]
             oldest == window[BurstSnapshots]
             duration ==
                 signed_duration_since(newest.timestamp, oldest.timestamp)
         IN IF DurationLess(duration, DurationMinutes(BurstMinutes))
            THEN Some(Nudge("HighActivity", "Low"))
            ELSE None

RECURSIVE sort_by_priorityUnstable(_)
sort_by_priorityUnstable(nudges) ==
    IF nudges = <<>> THEN <<>>
    ELSE LET sorted == sort_by_priorityUnstable(SubSeq(nudges, 1, Len(nudges) - 1))
             last   == nudges[Len(nudges)]
             ahead  == {i \in 1..Len(sorted) :
                          PriorityRank(sorted[i].priority)
                              > PriorityRank(last.priority)}
             k      == Cardinality(ahead)
         IN SubSeq(sorted, 1, k) \o <<last>> \o SubSeq(sorted, k + 1, Len(sorted))

\* nudges.sort_by(|a, b| b.priority.cmp(&a.priority)): a stable sort,
\* highest priority first
RECURSIVE sort_by_priority(_)
sort_by_priority(nudges) ==
    IF nudges = <<>> THEN <<>>
    ELSE LET sorted == sort_by_priority(SubSeq(nudges, 1, Len(nudges) - 1))
             last   == nudges[Len(nudges)]
             ahead  == {i \in 1..Len(sorted) :
                          PriorityRank(sorted[i].priority)
                              >= PriorityRank(last.priority)}
             k      == Cardinality(ahead)
         IN SubSeq(sorted, 1, k) \o <<last>> \o SubSeq(sorted, k + 1, Len(sorted))

truncateTail(seq, len) ==
    SubSeq(seq, Len(seq) - Min(len, Len(seq)) + 1, Len(seq))

\* Vec::truncate
truncate(seq, len) == SubSeq(seq, 1, Min(len, Len(seq)))

\* the nudges analyze() has pushed before it sorts them; an Option is a
\* sequence of no or one element
Triggered(window, now, config) ==
    check_focus_time(window, now, config)
    \o (IF config.enable_context_switch_nudges
        THEN check_context_switches(window) ELSE <<>>)
    \o check_activity_level(window)

\* analyze() on the window get_recent_snapshots(50).unwrap_or_default()
\* has given
analyze(window, now, config) ==
    truncate(sort_by_priority(Triggered(window, now, config)),
             config.max_nudges_per_day)

(***************************************************************************)
(* SpecAnalyze: Gatekeeper::new(&db, config).analyze() called once on a    *)
(* store of snapshots laid out by a few parameters                         *)
(***************************************************************************)
MaxExtra == 1

MaxNudges == 3

\* numbers of stored snapshots around the limits the checks use
StoreSizes ==
    {0, 1, SwitchMinSnapshots - 1, SwitchMinSnapshots, SwitchWindow,
     SwitchWindow + 1, BurstSnapshots - 1, BurstSnapshots,
     BurstSnapshots + 1, WindowSize, WindowSize + MaxExtra}

\* the directory /p0 ... /p5 as a String
Project(i) == <<"/", "p", <<"0", "1", "2", "3", "4", "5">>[i + 1]>>

\* how active_directory varies with the rank r of a snapshot (1 is the
\* newest): one directory, none, four or five in turn, four and none in
\* turn, five in turn beyond the ten newest only
DirPatterns == {"same", "none", "cycle4", "cycle5", "cycle4none", "old5"}

DirAt(pattern, r) ==
    CASE pattern = "same" -> Some(Project(0))
      [] pattern = "none" -> None
      [] pattern = "cycle4" -> Some(Project(r % 4))
      [] pattern = "cycle5" -> Some(Project(r % 5))
      [] pattern = "cycle4none" ->
            IF r % 5 = 0 THEN None ELSE Some(Project(r % 5))
      [] pattern = "old5" ->
            IF r <= SwitchWindow THEN Some(Project(0))
            ELSE Some(Project(1 + (r % 5)))

\* seconds between one snapshot and the next
Gaps == {60, 95}

\* the second of the second newest snapshot's timestamp plus one gap
\* (05:33:20)
NewestSecs == 20000

\* how much later than one gap after its predecessor the newest snapshot
\* was taken: with 60 seconds between the others, the newest is one
\* nanosecond less than 30 minutes, or exactly 30 minutes, after the 20th
Leads == {Duration(0, 0), Duration(659, 999999999), Duration(660, 0)}

\* the timestamp of the snapshot of rank r
TimeAt(r, gap, lead) ==
    IF r = 1 THEN DateTime(NewestSecs + lead.secs, lead.nanos)
    ELSE DateTime(NewestSecs - (r - 1) * gap, 0)

\* the snapshot of rank r
SnapshotAt(r, pattern, gap, lead) ==
    [new_snapshot(r, TimeAt(r, gap, lead)) EXCEPT
        !.active_directory = DirAt(pattern, r)]

\* the table after n such snapshots were inserted
StoreOf(n, pattern, gap, lead) ==
    {Row(SnapshotAt(r, pattern, gap, lead)) : r \in 1..n}

\* time from the oldest snapshot of the window to the call: around the
\* 90 minutes of the default max_focus_time_minutes
Ages == {Duration(5399, 999999999), Duration(5400, 0), Duration(5400, 1)}

\* Utc::now() read by check_focus_time
NowFor(n, gap, lead, age) ==
    IF n = 0 THEN DateTime(NewestSecs, 0)
    ELSE LET oldest == TimeAt(Min(n, WindowSize), gap, lead)
             nanos == oldest.nanos + age.nanos
         IN DateTime(oldest.secs + age.secs + (nanos \div NanosPerSec),
                     nanos % NanosPerSec)

\* GatekeeperConfig: the defaults for the focus times, and half the
\* default as another limit
FocusLimits == {45, 90}

Configs ==
    [max_nudges_per_day : 0..MaxNudges,
     enable_context_switch_nudges : BOOLEAN,
     min_focus_time_minutes : {15},
     max_focus_time_minutes : FocusLimits]

InitAnalyze ==
    /\ \E n \in StoreSizes, pattern \in DirPatterns, gap \in Gaps,
          lead \in Leads, age \in Ages :
        /\ snapshots = StoreOf(n, pattern, gap, lead)
        /\ call = [fn |-> "analyze", pc |-> "call",
                   now |-> NowFor(n, gap, lead, age)]
    /\ next_id = 0
    /\ db_op = NoOp
    /\ file_events = {}
    /\ DedupIdle
    /\ WatchIdle

RememberedReturned(returned) ==
    {returned[i].nudge_type : i \in 1..Len(returned)}

\* what a Gatekeeper keeps of the nudges a call returned: it has the fields
\* db and config only and analyze takes &self, so nothing
Remembered(returned) == {}

\* Gatekeeper::new(&db, config).analyze(); read_ok = FALSE is a failing
\* get_recent_snapshots, which unwrap_or_default turns into no snapshots
Analyze ==
    /\ call.fn = "analyze"
    /\ call.pc = "call"
    /\ \E read_ok \in BOOLEAN :
       \E window \in IF read_ok
                     THEN get_recent_snapshots(snapshots, WindowSize)
                     ELSE {<<>>} :
       \E config \in Configs :
          call' = [fn |-> "analyze", pc |-> "ret", now |-> call.now,
                   read_ok |-> read_ok, window |-> window,
                   config |-> config,
                   nudges |-> Triggered(window, call.now, config),
                   result |-> analyze(window, call.now, config),
                   remembered |-> Remembered(analyze(window, call.now, config)),
                   earlier |-> <<>>]
    /\ UNCHANGED <<storeVars, dedupVars, watchVars>>

NextAnalyze == Analyze

SpecAnalyze == InitAnalyze /\ [][NextAnalyze]_vars

AnalyzeReturned == call.fn = "analyze" /\ call.pc = "ret"

\* w is a window of the `size` most recent snapshots of the table, newest
\* first
IsRecentWindow(w, rows, size) ==
    /\ Len(w) = Min(size, Cardinality(rows))
    /\ \A i \in 1..Len(w) : Row(w[i]) \in rows
    /\ \A i, j \in 1..Len(w) :
           i < j => (w[i].id # w[j].id /\ TimeLeq(w[j].timestamp, w[i].timestamp))
    /\ \A r \in rows :
           (\A i \in 1..Len(w) : w[i].id # r.id) =>
               TimeLeq(parse_from_rfc3339(r.timestamp), w[Len(w)].timestamp)

\* the oldest and the newest snapshot of the window have the same
\* active_directory and more than `minutes` minutes have passed since the
\* oldest
FocusTooLong(w, now, minutes) ==
    /\ w # <<>>
    /\ w[Len(w)].active_directory = w[1].active_directory
    /\ LET passed == now.secs - w[Len(w)].timestamp.secs
       IN \/ passed > 60 * minutes
          \/ passed = 60 * minutes /\ now.nanos > w[Len(w)].timestamp.nanos

NudgesOfType(result, nudge_type) ==
    {i \in 1..Len(result) : result[i].nudge_type = nudge_type}

\* C19: with max_nudges_per_day >= 1, analyze() returns exactly one TakeBreak
\* nudge, at Medium priority, when the oldest and the newest snapshot of the
\* window of the 50 most recent snapshots have the same active_directory
\* and the time since the oldest exceeds max_focus_time_minutes; in every
\* other case it returns no TakeBreak nudge.
C19_TakeBreakWhenFocusTooLong ==
    (AnalyzeReturned /\ call.config.max_nudges_per_day >= 1) =>
        LET breaks == NudgesOfType(call.result, "TakeBreak")
        IN /\ call.read_ok =>
                  IsRecentWindow(call.window, snapshots, WindowSize)
           /\ IF FocusTooLong(call.window, call.now,
                              call.config.max_focus_time_minutes)
              THEN /\ Cardinality(breaks) = 1
                   /\ \A i \in breaks : call.result[i].priority = "Medium"
              ELSE breaks = {}

\* eleven snapshots over five directories, the oldest in the directory of
\* the newest, 90 minutes and a nanosecond old: with max_nudges_per_day = 1
\* the TakeBreak nudge is the one returned, ahead of the ContextSwitch nudge
C19_Witness ==
    /\ AnalyzeReturned
    /\ call.read_ok
    /\ call.config.max_nudges_per_day = 1
    /\ call.config.max_focus_time_minutes = 90
    /\ Len(call.window) = SwitchWindow + 1
    /\ signed_duration_since(call.now, call.window[Len(call.window)].timestamp)
          = Duration(5400, 1)
    /\ Len(Triggered(call.window, call.now, call.config)) = 2
    /\ call.result = <<Nudge("TakeBreak", "Medium")>>

\* the 10 most recent snapshots of the window reference 5 or more distinct
\* active_directory values
ManyDirectories(w) ==
    Cardinality({w[i].active_directory :
                    i \in {i \in 1..Len(w) : /\ i <= 10
                                              /\ w[i].active_directory # None}})
        >= 5

ContextSwitchOnce(result) ==
    LET switches == NudgesOfType(result, "ContextSwitch")
    IN /\ Cardinality(switches) = 1
       /\ \A i \in switches : result[i].priority = "Low"

\* C20 as stated: whenever context-switch nudges are enabled and the 10 most
\* recent snapshots reference 5 or more distinct active_directory values,
\* the result of analyze() includes exactly one ContextSwitch nudge, at Low
\* priority; when they are disabled the result includes none.
C20_ContextSwitchIncluded ==
    (AnalyzeReturned /\ call.read_ok) =>
        /\ (/\ call.config.enable_context_switch_nudges
            /\ ManyDirectories(call.window)) =>
               ContextSwitchOnce(call.result)
        /\ ~call.config.enable_context_switch_nudges =>
               NudgesOfType(call.result, "ContextSwitch") = {}

\* C20 amended: the same, provided the truncation to max_nudges_per_day
\* leaves room for the nudge: max_nudges_per_day is at least 2, or it is 1
\* and no TakeBreak nudge, which is sorted ahead, is due in the same call.
C20_ContextSwitchUnlessTruncated ==
    (AnalyzeReturned /\ call.read_ok) =>
        /\ (/\ call.config.enable_context_switch_nudges
            /\ ManyDirectories(call.window)
            /\ \/ call.config.max_nudges_per_day >= 2
               \/ /\ call.config.max_nudges_per_day = 1
                  /\ ~FocusTooLong(call.window, call.now,
                                   call.config.max_focus_time_minutes)) =>
               ContextSwitchOnce(call.result)
        /\ ~call.config.enable_context_switch_nudges =>
               NudgesOfType(call.result, "ContextSwitch") = {}

\* twenty-one snapshots over five directories make all three checks fire;
\* with max_nudges_per_day = 2 the ContextSwitch nudge is returned behind
\* the TakeBreak nudge and the HighActivity nudge is cut
C20_Witness ==
    /\ AnalyzeReturned
    /\ call.read_ok
    /\ call.config.enable_context_switch_nudges
    /\ call.config.max_nudges_per_day = 2
    /\ Len(call.window) = BurstSnapshots + 1
    /\ Len(Triggered(call.window, call.now, call.config)) = 3
    /\ call.result = <<Nudge("TakeBreak", "Medium"),
                       Nudge("ContextSwitch", "Low")>>

\* the nudges of one type that the checks of the call pushed
Pushed(nudge_type) ==
    SelectSeq(call.nudges, LAMBDA nudge : nudge.nudge_type = nudge_type)

\* the window holds at least 20 snapshots and the newest was taken less
\* than 30 minutes after the 20th most recent
BurstUnderHalfHour(w) ==
    /\ Len(w) >= 20
    /\ LET secs == w[1].timestamp.secs - w[20].timestamp.secs
           nanos == w[1].timestamp.nanos - w[20].timestamp.nanos
       IN secs < 30 * 60 \/ (secs = 30 * 60 /\ nanos < 0)

\* C21: the burst check pushes a HighActivity nudge, of Low priority, iff
\* the window holds at least 20 snapshots and the newest is less than 30
\* minutes younger than the 20th most recent; at exactly 30 minutes it
\* pushes nothing
C21_HighActivityIffBurst ==
    AnalyzeReturned =>
        Pushed("HighActivity")
            = IF BurstUnderHalfHour(call.window)
              THEN <<Nudge("HighActivity", "Low")>> ELSE <<>>

\* 20 snapshots in one nanosecond less than 30 minutes: the nudge is pushed
C21_Witness ==
    /\ AnalyzeReturned
    /\ Len(call.window) = 20
    /\ signed_duration_since(call.window[1].timestamp,
                             call.window[20].timestamp)
           = Duration(1799, 999999999)
    /\ Pushed("HighActivity")
           = <<Nudge("HighActivity", "Low")>>

\* 20 snapshots in exactly 30 minutes: nothing is pushed
C21_ExactlyHalfHour ==
    /\ AnalyzeReturned
    /\ Len(call.window) >= 20
    /\ signed_duration_since(call.window[1].timestamp,
                             call.window[20].timestamp)
           = DurationMinutes(30)
    /\ Pushed("HighActivity") = <<>>

\* the place of a nudge type in the order in which analyze() runs its
\* checks: focus, context switch, burst
CheckOrder(nudge_type) ==
    CASE nudge_type = "TakeBreak" -> 1
      [] nudge_type = "ContextSwitch" -> 2
      [] nudge_type = "HighActivity" -> 3

\* High > Medium > Low
Outranks(p, q) ==
    \/ p = "High" /\ q \in {"Medium", "Low"}
    \/ p = "Medium" /\ q = "Low"

\* C22: the sequence analyze() returns is in non-increasing priority order,
\* and nudges of equal priority are in the order their checks ran: focus,
\* context switch, burst
C22_SortedByPriorityStable ==
    AnalyzeReturned =>
        \A i, j \in 1..Len(call.result) :
            i < j =>
                /\ ~Outranks(call.result[j].priority, call.result[i].priority)
                /\ call.result[i].priority = call.result[j].priority =>
                       CheckOrder(call.result[i].nudge_type)
                           < CheckOrder(call.result[j].nudge_type)

\* all three checks fired: the Medium nudge first, the two Low ones in the
\* order of their checks
C22_Witness ==
    /\ AnalyzeReturned
    /\ call.result = << Nudge("TakeBreak", "Medium"),
                        Nudge("ContextSwitch", "Low"),
                        Nudge("HighActivity", "Low") >>

\* the nudges the checks pushed that the call did not return
LeftOut ==
    {call.nudges[i] : i \in 1..Len(call.nudges)}
        \ {call.result[i] : i \in 1..Len(call.result)}

\* C23: analyze() returns at most max_nudges_per_day nudges, none when it
\* is 0; they are pushed nudges, as many as the limit allows, and no pushed
\* nudge that was left out has a higher priority than a returned one
C23_TruncatedAfterSort ==
    AnalyzeReturned =>
        /\ Len(call.result) <= call.config.max_nudges_per_day
        /\ Len(call.result)
               = Min(call.config.max_nudges_per_day, Len(call.nudges))
        /\ \A i \in 1..Len(call.result) :
               \E j \in 1..Len(call.nudges) : call.nudges[j] = call.result[i]
        /\ \A i, j \in 1..Len(call.result) :
               i # j => call.result[i] # call.result[j]
        /\ \A nudge \in LeftOut :
               \A i \in 1..Len(call.result) :
                   ~Outranks(nudge.priority, call.result[i].priority)

\* three nudges were pushed and the limit is 1: the Medium one is returned,
\* the two Low ones are left out
C23_Witness ==
    /\ AnalyzeReturned
    /\ call.config.max_nudges_per_day = 1
    /\ Len(call.nudges) = 3
    /\ call.result = << Nudge("TakeBreak", "Medium") >>
    /\ LeftOut = {Nudge("ContextSwitch", "Low"), Nudge("HighActivity", "Low")}

\* with a limit of 0 nothing is returned although nudges were pushed
C23_LimitZero ==
    /\ AnalyzeReturned
    /\ call.config.max_nudges_per_day = 0
    /\ Len(call.nudges) = 3
    /\ call.result = <<>>

(***************************************************************************)
(* SpecRepeat: analyze() called again and again on one Gatekeeper, the     *)
(* clock standing still or moving on between the calls                     *)
(***************************************************************************)
MaxCalls == 3

\* numbers of stored snapshots: none, and enough for every check
RepeatSizes == {0, BurstSnapshots + 1}

\* Utc::now() of a later call: the same reading or one second later
LaterNow(now) == {now, DateTime(now.secs + 1, now.nanos)}

InitRepeat ==
    /\ \E n \in RepeatSizes, pattern \in DirPatterns, age \in Ages :
        /\ snapshots = StoreOf(n, pattern, 60, Duration(0, 0))
        /\ call = [fn |-> "analyze", pc |-> "call",
                   now |-> NowFor(n, 60, Duration(0, 0), age)]
    /\ next_id = 0
    /\ db_op = NoOp
    /\ file_events = {}
    /\ DedupIdle
    /\ WatchIdle

\* what a finished call leaves for the comparison with later ones
Finished(c) ==
    [now |-> c.now, read_ok |-> c.read_ok, config |-> c.config,
     result |-> c.result]

\* the same Gatekeeper's analyze() called once more: nothing it kept
\* filters the nudges
AnalyzeAgain ==
    /\ call.fn = "analyze"
    /\ call.pc = "ret"
    /\ Len(call.earlier) + 1 < MaxCalls
    /\ \E read_ok \in BOOLEAN, now \in LaterNow(call.now) :
       \E window \in IF read_ok
                     THEN get_recent_snapshots(snapshots, WindowSize)
                     ELSE {<<>>} :
          LET result == SelectSeq(analyze(window, now, call.config),
                                  LAMBDA nudge :
                                      nudge.nudge_type \notin call.remembered)
          IN call' = [fn |-> "analyze", pc |-> "ret", now |-> now,
                      read_ok |-> read_ok, window |-> window,
                      config |-> call.config,
                      nudges |-> Triggered(window, now, call.config),
                      result |-> result,
                      remembered |-> call.remembered \cup Remembered(result),
                      earlier |-> Append(call.earlier, Finished(call))]
    /\ UNCHANGED <<storeVars, dedupVars, watchVars>>

NextRepeat == Analyze \/ AnalyzeAgain

SpecRepeat == InitRepeat /\ [][NextRepeat]_vars

as_str(event_type) ==
    CASE event_type = "Created" -> "created"
      [] event_type = "Modified" -> "modified"
      [] event_type = "Deleted" -> "deleted"
      [] event_type = "Renamed" -> "renamed"

\* new_file_event(path, event_type): generated id, current timestamp
new_file_event(id, now, path, event_type) ==
    [id |-> id, timestamp |-> now, path |-> path, event_type |-> event_type]

\* the row insert_file_event writes: the timestamp as RFC 3339 text, the
\* type as its lower-case name
FileEventRow(event) ==
    [id |-> event.id, timestamp |-> to_rfc3339(event.timestamp),
     path |-> event.path, event_type |-> as_str(event.event_type)]

\* insert_file_event: id is the PRIMARY KEY, a second row with the same id
\* is refused and the table stays as it was
insert_file_event(rows, event) ==
    IF \E r \in rows : r.id = event.id THEN rows
    ELSE rows \cup {FileEventRow(event)}

\* SQLite's <= on TEXT
TextLeq(a, b) == a = b \/ TextLess(a, b)

\* the same counts over timestamp >= ?1 AND timestamp < ?2, for comparison
get_activity_summaryHalfOpen(rows, since, until) ==
    LET in_range == {r \in rows :
                        /\ TextLeq(to_rfc3339(since), r.timestamp)
                        /\ TextLess(r.timestamp, to_rfc3339(until))}
    IN [total_events |-> Cardinality(in_range),
        files_modified |->
            Cardinality({r \in in_range : r.event_type = "modified"}),
        files_created |->
            Cardinality({r \in in_range : r.event_type = "created"})]

\* get_activity_summary: the three COUNT(*) queries, each with
\* WHERE timestamp >= ?1 AND timestamp <= ?2 on the stored text
get_activity_summary(rows, since, until) ==
    LET in_range == {r \in rows :
                        /\ TextLeq(to_rfc3339(since), r.timestamp)
                        /\ TextLeq(r.timestamp, to_rfc3339(until))}
    IN [total_events |-> Cardinality(in_range),
        files_modified |->
            Cardinality({r \in in_range : r.event_type = "modified"}),
        files_created |->
            Cardinality({r \in in_range : r.event_type = "created"})]

\* SUBSTR(path, 1, INSTR(path || '/', '/')): the path up to and including
\* its first slash, the whole path if it has none
FirstSegment(path) ==
    LET slashes == {i \in 1..Len(path) : path[i] = "/"}
    IN IF slashes = {} THEN path
       ELSE SubSeq(path, 1, CHOOSE i \in slashes : \A j \in slashes : i <= j)

\* the fourth query: GROUP BY dir ORDER BY COUNT(*) DESC LIMIT 1 gives one
\* of the directories with the most rows in the range, or no row
most_active_directory(rows, since, until) ==
    LET in_range == {r \in rows :
                        /\ TextLeq(to_rfc3339(since), r.timestamp)
                        /\ TextLeq(r.timestamp, to_rfc3339(until))}
        dirs == {FirstSegment(r.path) : r \in in_range}
        CountOf(dir) ==
            Cardinality({r \in in_range : FirstSegment(r.path) = dir})
    IN IF dirs = {} THEN {None}
       ELSE {Some(dir) : dir \in
                {d \in dirs : \A other \in dirs : CountOf(other) <= CountOf(d)}}

SecsPerDay == 86400

\* date.date_naive().and_hms_opt(0, 0, 0) as a UTC instant
start_of_day(date) == DateTime((date.secs \div SecsPerDay) * SecsPerDay, 0)

\* the summaries daily_summary(date) can return: the counts between the
\* start of the day and the start of the next, or all zero when a query
\* failed (unwrap_or)
daily_summary(rows, date, read_ok) ==
    LET since == start_of_day(date)
        until == DateTime(since.secs + SecsPerDay, 0)
        activity == get_activity_summary(rows, since, until)
    IN IF read_ok
       THEN {[date |-> date,
              total_events |-> activity.total_events,
              files_modified |-> activity.files_modified,
              files_created |-> activity.files_created,
              most_active_directory |-> dir] :
                 dir \in most_active_directory(rows, since, until)}
       ELSE {[date |-> date, total_events |-> 0, files_modified |-> 0,
              files_created |-> 0, most_active_directory |-> None]}

(***************************************************************************)
(* SpecSummary: daily_summary(date) called once on a table of file events  *)
(* stamped around midnight                                                 *)
(***************************************************************************)
MaxEvents == 2

\* Utc::now() of the events: the first instant of day 1, the last
\* nanosecond of day 1, the first instant of day 2, one nanosecond and half
\* a second later, the first instant of day 3
EventTimes ==
    {DateTime(0, 0), DateTime(SecsPerDay - 1, 999999999),
     DateTime(SecsPerDay, 0), DateTime(SecsPerDay, 1),
     DateTime(SecsPerDay, 500000000), DateTime(2 * SecsPerDay, 0)}

\* the types the tests insert
WrittenTypes == {"Created", "Modified", "Deleted"}

\* the path of the event with this id: absolute, or relative
EventPath(id) == IF id % 2 = 1 THEN PathA ELSE <<"a", "/", "b">>

RECURSIVE FileEventsOf(_, _, _)
\* the table after events 1..n were inserted
FileEventsOf(n, times, types) ==
    IF n = 0 THEN {}
    ELSE insert_file_event(FileEventsOf(n - 1, times, types),
                           new_file_event(n, times[n], EventPath(n), types[n]))

\* the dates asked for: noon of day 1, the first instant of day 2, and an
\* instant later in day 2
SummaryDates ==
    {DateTime(43200, 0), DateTime(SecsPerDay, 0), DateTime(100000, 5)}

InitSummary ==
    /\ \E n \in 0..MaxEvents :
       \E times \in [1..n -> EventTimes], types \in [1..n -> WrittenTypes] :
           file_events = FileEventsOf(n, times, types)
    /\ snapshots = {}
    /\ next_id = 0
    /\ db_op = NoOp
    /\ call = [fn |-> "daily_summary", pc |-> "call"]
    /\ DedupIdle
    /\ WatchIdle

\* Gatekeeper::daily_summary(date); read_ok = FALSE is a failing query
DailySummary ==
    /\ call.fn = "daily_summary"
    /\ call.pc = "call"
    /\ \E date \in SummaryDates, read_ok \in BOOLEAN :
       \E summary \in daily_summary(file_events, date, read_ok) :
           call' = [fn |-> "daily_summary", pc |-> "ret", date |-> date,
                    read_ok |-> read_ok, summary |-> summary]
    /\ UNCHANGED <<storeVars, dedupVars, watchVars>>

NextSummary == DailySummary

SpecSummary == InitSummary /\ [][NextSummary]_vars

SummaryReturned == call.fn = "daily_summary" /\ call.pc = "ret"

\* the instant lies in the UTC calendar day that contains date: from 00:00
\* of that day, included, to 00:00 of the next, excluded
InDayOf(t, date) == t.secs \div 86400 = date.secs \div 86400

\* the rows whose instant lies in the day of date
RowsOfDay(date) ==
    {r \in file_events : InDayOf(parse_from_rfc3339(r.timestamp), date)}

\* C25: daily_summary(date) counts exactly the file events stamped within
\* the UTC calendar day of date, 00:00 included and 00:00 of the next day
\* excluded
C25_CountsEventsOfTheDay ==
    (SummaryReturned /\ call.read_ok) =>
        /\ call.summary.total_events = Cardinality(RowsOfDay(call.date))
        /\ call.summary.files_modified =
               Cardinality({r \in RowsOfDay(call.date) :
                               r.event_type = "modified"})
        /\ call.summary.files_created =
               Cardinality({r \in RowsOfDay(call.date) :
                               r.event_type = "created"})

\* the summary of day 1 has counted an event stamped at the first instant
\* of day 2
C25_MidnightCountedTwice ==
    /\ SummaryReturned
    /\ call.read_ok
    /\ call.date = DateTime(43200, 0)
    /\ file_events = {FileEventRow(new_file_event(1, DateTime(SecsPerDay, 0),
                                                  PathA, "Modified"))}
    /\ call.summary.total_events = 1

(***************************************************************************)
(* Loading the configuration (config.rs 131-225, main.rs 184-217)          *)
(***************************************************************************)
\* a directory that is not there
PathGone == <<"/", "x">>

\* Path::exists for the directories a configuration names
Exists(dir) == dir # PathGone

\* Config::validate
validate(config) ==
    IF config.directories = <<>>
    THEN Err("At least one directory must be configured")
    ELSE IF \E i \in 1..Len(config.directories) :
                ~Exists(config.directories[i])
    THEN Err("Configured directory does not exist")
    ELSE IF \E i \in 1..Len(config.ignore_patterns) :
                RegexNew(config.ignore_patterns[i]) = None
    THEN Err("Invalid ignore pattern regex")
    ELSE IF config.daily_digest_hour > 23
    THEN Err("daily_digest_hour must be between 0 and 23")
    ELSE IF config.max_nudges_per_day > 100
    THEN Err("max_nudges_per_day must not exceed 100")
    ELSE IF config.max_snapshots > 1000000
    THEN Err("max_snapshots must not exceed 1,000,000")
    ELSE Ok(config)

\* Config::load: read the file, parse it, validate what it says
load(file) ==
    IF file.kind = "missing" THEN Err("Failed to read config file")
    ELSE IF file.kind = "garbage" THEN Err("Failed to parse config file")
    ELSE validate(file.config)

\* Config::load_default: config_dir is Some when dirs::config_dir() gave a
\* directory
load_default(config_dir, file) ==
    IF config_dir = None THEN Err("Could not determine config directory")
    ELSE IF file.kind # "missing" THEN load(file)
    ELSE Err("No config file found")

\* Config::default_for_testing: the current directory, three patterns
\* that compile, the default settings
default_for_testing ==
    [directories |-> << <<".">> >>,
     ignore_patterns |-> << <<"\\.", "g">> >>,
     daily_digest_hour |-> 20,
     max_nudges_per_day |-> 2,
     max_snapshots |-> 1000]

\* main(): the configuration, the database, the command. cmd_watch enters
\* its loop when FileWatcher::new has succeeded; every other command
\* returns without a loop.
main(cli_config, config_dir, file, db_ok, watcher_ok, command) ==
    LET loaded == IF cli_config # None THEN load(file)
                  ELSE load_default(config_dir, file)
        warned == cli_config = None /\ ~loaded.ok
        failed == cli_config # None /\ ~loaded.ok
        config == IF loaded.ok THEN loaded.value
                  ELSE default_for_testing
    IN IF failed
       THEN [result |-> loaded, config |-> None, warned |-> FALSE,
             watch_loop |-> FALSE]
       ELSE IF ~db_ok
       THEN [result |-> Err("Failed to open database"),
             config |-> Some(config), warned |-> warned,
             watch_loop |-> FALSE]
       ELSE IF command = "Watch" /\ ~watcher_ok
       THEN [result |-> Err("Failed to create file watcher"),
             config |-> Some(config), warned |-> warned,
             watch_loop |-> FALSE]
       ELSE [result |-> Ok(command), config |-> Some(config),
             warned |-> warned, watch_loop |-> command = "Watch"]

(***************************************************************************)
(* SpecMain: the program started once, with or without --config, on a      *)
(* configuration file that is missing, unparsable, or says one of a few    *)
(* things                                                                  *)
(***************************************************************************)
\* what a parsable configuration file can say: settings at and beyond the
\* limits validate checks
FileConfigs ==
    [directories : {<<>>, <<PathA>>, <<PathGone>>, <<PathA, PathGone>>},
     ignore_patterns : {<<>>, << <<"\\.", "g">> >>, << <<"[", "a">> >>},
     daily_digest_hour : {23, 24},
     max_nudges_per_day : {100, 101},
     max_snapshots : {1000000, 1000001}]

ConfigFiles ==
    {[kind |-> "missing"], [kind |-> "garbage"]}
        \cup {[kind |-> "toml", config |-> config] : config \in FileConfigs}

\* the commands: the watcher, and one of those that return at once
Commands == {"Watch", "Nudge"}

InitMain ==
    /\ \E cli_config \in {None, Some("config.toml")},
          config_dir \in {None, Some("~/.config")},
          file \in ConfigFiles, command \in Commands :
        /\ config_dir = None => (cli_config = None /\ file.kind = "missing")
        /\ cli_config # None => config_dir # None
        /\ call = [fn |-> "main", pc |-> "call", cli_config |-> cli_config,
                   config_dir |-> config_dir, file |-> file,
                   command |-> command]
    /\ StoreEmpty
    /\ DedupIdle
    /\ WatchIdle

\* the program runs until it has ended or cmd_watch is in its loop
Main ==
    /\ call.fn = "main"
    /\ call.pc = "call"
    /\ \E db_ok \in BOOLEAN, watcher_ok \in BOOLEAN :
        call' = [fn |-> "main", pc |-> "ret",
                 cli_config |-> call.cli_config,
                 config_dir |-> call.config_dir, file |-> call.file,
                 command |-> call.command, db_ok |-> db_ok,
                 watcher_ok |-> watcher_ok,
                 outcome |-> main(call.cli_config, call.config_dir,
                                  call.file, db_ok, watcher_ok,
                                  call.command)]
    /\ UNCHANGED <<storeVars, dedupVars, watchVars>>

NextMain == Main

SpecMain == InitMain /\ [][NextMain]_vars

MainReturned == call.fn = "main" /\ call.pc = "ret"

\* the configuration file names a directory that does not exist or an
\* ignore pattern that is not a regular expression
ConfigError(file) ==
    /\ file.kind = "toml"
    /\ \/ \E i \in 1..Len(file.config.directories) :
              file.config.directories[i] = PathGone
       \/ \E i \in 1..Len(file.config.ignore_patterns) :
              "[" \in Range(file.config.ignore_patterns[i])

\* C26: when the configuration file names a nonexistent directory or an
\* invalid ignore pattern, the program ends with an error and the watch
\* loop does not start, with --config and without it
C26_ConfigErrorIsFatal ==
    (MainReturned /\ ConfigError(call.file)) =>
        /\ ~call.outcome.result.ok
        /\ ~call.outcome.watch_loop

\* the file at the default location names a directory that does not
\* exist, and the watch loop runs on the built-in configuration
C26_DefaultLocationFallsBack ==
    /\ MainReturned
    /\ call.cli_config = None
    /\ call.file.kind = "toml"
    /\ call.file.config.directories = <<PathGone>>
    /\ call.command = "Watch"
    /\ call.outcome.watch_loop
    /\ call.outcome.warned
    /\ call.outcome.config = Some(default_for_testing)

\* the same file given with --config ends the program
C26_ExplicitIsFatal ==
    (MainReturned /\ ConfigError(call.file) /\ call.cli_config # None) =>
        /\ ~call.outcome.result.ok
        /\ ~call.outcome.watch_loop

(***************************************************************************)
(* SpecLive and SpecShutdown: the watch loop as a thread that keeps        *)
(* running. The loop is one thread and each of its steps ends: the receive *)
(* by an item or the timeout, a store call by returning Ok or Err. The     *)
(* notifier may act or not. In SpecLive the shutdown flag is never set; in *)
(* SpecShutdown Ctrl-C may come at any moment.                             *)
(***************************************************************************)
\* the steps of the loop while the flag is set
Polling ==
    \/ LoopEnter
    \/ RecvEvent
    \/ RecvError
    \/ RecvTimeout
    \/ DrainItem
    \/ DrainEnd
    \/ CaptureOk
    \/ CaptureErr
    \/ CaptureDone
    \/ CleanupOk
    \/ CleanupErr

WatchLoop == Polling \/ LoopExit

MaxLiveSent == 2

NotifyLive == NotifyUpTo(MaxLiveSent)

NextLive == NotifyLive \/ Polling

SpecLive == InitWatch /\ [][NextLive]_vars /\ WF_vars(Polling)

NextShutdown == NotifyLive \/ CtrlC \/ WatchLoop

SpecShutdown == InitWatch /\ [][NextShutdown]_vars /\ WF_vars(WatchLoop)

\* the number of items taken from the queue so far
TakenSoFar == sent - Len(queue)

\* the n-th item the notifier sent is in the queue
InQueue(n) == TakenSoFar < n /\ n <= sent

\* the n-th item was taken in the polling cycle in progress, as the p-th of
\* the cycle, and capture has been called for the path of each event it
\* gave, in its place among the cycle's captures
HandledAs(n, p) ==
    /\ p \in 1..Len(cycle.taken)
    /\ TakenSoFar - Len(cycle.taken) + p = n
    /\ LET before == Len(ProcessAll(SubSeq(cycle.taken, 1, p - 1)))
           mine   == ProcessItem(cycle.taken[p])
       IN /\ Len(cycle.captured) >= before + Len(mine)
          /\ \A i \in 1..Len(mine) :
                 cycle.captured[before + i] = mine[i].path

Handled(n) == \E p \in 1..Len(cycle.taken) : HandledAs(n, p)

\* C27: the shutdown flag never being set, every item that enters the
\* queue is taken from it, and capture is called for the path of every
\* event it gives
C27_QueuedIsCaptured ==
    \A n \in 1..MaxLiveSent : InQueue(n) ~> Handled(n)

\* the flag is not set, the queue is empty, and the second item sent, a
\* notification for /a, has had its capture call
C27_Witness ==
    /\ running
    /\ sent = 2
    /\ queue = <<>>
    /\ Handled(2)
    /\ cycle.captured # <<>>
    /\ cycle.captured[Len(cycle.captured)] = PathA
    /\ ProcessItem(cycle.taken[Len(cycle.taken)]) # <<>>

\* C28: once the shutdown flag is set the loop ends; it begins no polling
\* cycle after the one in progress, and ends also when no item ever
\* arrives
C28_ShutdownTerminates ==
    /\ ~running ~> pc = "stopped"
    /\ [][~running => ~(pc = "loop" /\ pc' = "recv")]_vars

\* the loop has ended without any item ever sent
C28_Witness ==
    /\ pc = "stopped"
    /\ ~running
    /\ sent = 0
    /\ cycle.timeout

(***************************************************************************)
(* SpecRetain: the cleanup that ends a polling cycle, on a store the       *)
(* cycles so far have filled, and analyze() called right after it          *)
(***************************************************************************)
\* config.database.max_snapshots: nothing kept, one less than the burst
\* check needs, and just what it needs
RetainCaps == {0, BurstSnapshots - 1, BurstSnapshots}

\* numbers of snapshots in the store when the cleanup begins
RetainSizes ==
    {BurstSnapshots - 1, BurstSnapshots, BurstSnapshots + 1,
     WindowSize + MaxExtra}

InitRetain ==
    /\ \E n \in RetainSizes, pattern \in DirPatterns, gap \in Gaps :
        /\ snapshots = StoreOf(n, pattern, gap, Duration(0, 0))
        /\ call = [fn |-> "analyze", pc |-> "cycle",
                   now |-> NowFor(n, gap, Duration(0, 0), Duration(5400, 1))]
    /\ next_id = 0
    /\ db_op = NoOp
    /\ file_events = {}
    /\ DedupIdle
    /\ WatchIdle

\* snapshot_service.cleanup(config.database.max_snapshots) returns Ok
CycleCleanupOk ==
    /\ call.fn = "analyze"
    /\ call.pc = "cycle"
    /\ \E max \in RetainCaps : \E r \in cleanup_old_snapshots(snapshots, max) :
        /\ snapshots' = r.rows
        /\ db_op' = [op |-> "cleanup", ok |-> TRUE, max |-> max, id |-> 0,
                     before |-> snapshots, deleted |-> r.deleted,
                     prev |-> Prev(db_op)]
    /\ call' = [call EXCEPT !.pc = "call"]
    /\ UNCHANGED <<next_id, file_events, dedupVars, watchVars>>

\* snapshot_service.cleanup(..) returns Err: the store is as it was
CycleCleanupErr ==
    /\ call.fn = "analyze"
    /\ call.pc = "cycle"
    /\ \E max \in RetainCaps :
        db_op' = [op |-> "cleanup", ok |-> FALSE, max |-> max, id |-> 0,
                  before |-> snapshots, deleted |-> 0, prev |-> Prev(db_op)]
    /\ call' = [call EXCEPT !.pc = "call"]
    /\ UNCHANGED <<snapshots, next_id, file_events, dedupVars, watchVars>>

NextRetain == CycleCleanupOk \/ CycleCleanupErr \/ Analyze

SpecRetain == InitRetain /\ [][NextRetain]_vars

\* the cycle's cleanup succeeded with a cap below the 20 snapshots the
\* burst check needs
CleanedBelowBurst ==
    /\ db_op.op = "cleanup"
    /\ db_op.ok
    /\ db_op.max < 20

\* C29: when max_snapshots is below 20, analyze() called right after a
\* polling cycle whose cleanup succeeded returns no HighActivity nudge,
\* whatever the store held before the cleanup
C29_NoBurstBelowRetention ==
    (AnalyzeReturned /\ CleanedBelowBurst) =>
        /\ \A i \in 1..Len(call.result) :
               call.result[i].nudge_type # "HighActivity"
        /\ Pushed("HighActivity") = <<>>

\* the store held a burst of 21 snapshots, the cleanup kept 19, and
\* analyze(), allowed three nudges and its read successful, returned none
\* for the burst
C29_Witness ==
    /\ AnalyzeReturned
    /\ CleanedBelowBurst
    /\ db_op.max = BurstSnapshots - 1
    /\ Cardinality(db_op.before) = BurstSnapshots + 1
    /\ \E w \in get_recent_snapshots(db_op.before, WindowSize) :
           check_activity_level(w) # None
    /\ Cardinality(snapshots) = BurstSnapshots - 1
    /\ call.read_ok
    /\ call.config.max_nudges_per_day = 3
    /\ Pushed("HighActivity") = <<>>

\* with a cap of 20 the nudge is returned after the cleanup
C29_BurstAtCapTwenty ==
    /\ AnalyzeReturned
    /\ db_op.op = "cleanup"
    /\ db_op.ok
    /\ db_op.max = BurstSnapshots
    /\ \E i \in 1..Len(call.result) :
           call.result[i].nudge_type = "HighActivity"

\* C30: the watch loop writes no file-event row: begun on a store without
\* file events, after any number of polling cycles the table is empty and
\* daily_summary reports no event, no modified and no created file for
\* every date
C30_WatchWritesNoFileEvent ==
    /\ file_events = {}
    /\ \A date \in SummaryDates, read_ok \in BOOLEAN :
           \A summary \in daily_summary(file_events, date, read_ok) :
               /\ summary.total_events = 0
               /\ summary.files_modified = 0
               /\ summary.files_created = 0

\* two polling cycles have ended, snapshots are stored, and the summary of
\* the day of the captures reports no event
C30_Witness ==
    /\ pc = "loop"
    /\ cycle.cleanups = 1
    /\ cycle.prev_err = FALSE
    /\ sent = MaxSent
    /\ queue = <<>>
    /\ snapshots # {}
    /\ \A r \in snapshots :
           InDayOf(parse_from_rfc3339(r.timestamp), DateTime(43200, 0))
    /\ daily_summary(file_events, DateTime(43200, 0), TRUE)
           = {[date |-> DateTime(43200, 0), total_events |-> 0,
               files_modified |-> 0, files_created |-> 0,
               most_active_directory |-> None]}

====
